---- MODULE Spec2Model ----
(***************************************************************************)
(* A model of the market-making bots: the self-rescheduling run loop of    *)
(* BaseBot, the quoting agent (MarketMakerBot) with its order              *)
(* reconciliation, the activity agent (MarketTakerBot), and the            *)
(* PairTrader / BotManager orchestration driven by main().                 *)
(*                                                                         *)
(* Execution follows Node's event loop: every action is one macrotask      *)
(* (a timer callback, the resumption of an await on a collaborator call,   *)
(* a signal, or a call made by the harness) run to its next real await.    *)
(* Continuations of awaits on already-settled promises are microtasks:     *)
(* they are kept in the FIFO queue micro and run before any other          *)
(* macrotask.                                                              *)
(*                                                                         *)
(* Prices are integers in units of 10^-5, sizes integers in units of       *)
(* 10^-8 (the precisions the code rounds to); ratios are exact fractions.  *)
(***************************************************************************)
EXTENDS Integers, Sequences, FiniteSets, TLC

(***************************************************************************)
(* Bounds of the model.                                                    *)
(***************************************************************************)
\* venue order ids are 1..MaxOrderId; a submit succeeds only with a free id
MaxOrderId == 1
\* run() invocations of one bot that may be in flight together
MaxRuns == 2
\* setTimeout handles of one bot are 1..MaxHandle (0 is null)
MaxHandle == 3
\* termination signals delivered to the process
MaxSignals == 2
\* the order ids the venue hands out to a maker that is left running
MaxCycleOrderId == 3

(***************************************************************************)
(* Program constants.                                                      *)
(***************************************************************************)
\* manageOrders: maxPriceDeviation = 0.001, maxSizeDeviation = 0.1
MaxPriceDevNum == 1
MaxPriceDevDen == 1000
MaxSizeDevNum == 1
MaxSizeDevDen == 10
\* cancelReplaceRatio (percent)
CancelReplaceRatioPct == 0
\* run(): the configuration values used when the pair configuration gives none
BaseSpreadNum == 1
BaseSpreadDen == 1000
SpreadVolMultiplier == 1
VolatilityNum == 1
VolatilityDen == 100
DepthLevels == 1
\* baseSizePerLevel 0.1 in units of 10^-8
BaseSizePerLevel == 10000000
\* sizeRandomizationFactor 0.1, as a fraction of SizeVarDen
SizeVarDen == 10
SizeVarFactor == 1
\* the widening step: ask *= 1.0001, bid *= 0.9999
WidenDen == 10000
\* PairTrader.start warm-up and BotManager.shutdown grace, in ms
WarmupMs == 2000
GraceMs == 1000
\* the clock advances in steps of TickMs
TickMs == 500
MomentumLookbackTicks == 3

Pairs == {"BTC-USDB", "BTC-EURB"}
Kinds == {"mm", "mt"}
Bots == Pairs \X Kinds
MM(p) == <<p, "mm">>
MT(p) == <<p, "mt">>

OrderIds == 1..MaxOrderId
Handles == 1..MaxHandle
NullHandle == 0

(***************************************************************************)
(* Arithmetic helpers.                                                     *)
(***************************************************************************)
Abs(x) == IF x < 0 THEN -x ELSE x

\* Math.round(n/d) for d > 0: the nearest integer, halves rounded up.
\* (n + d/2) \div d when d is even, which keeps intermediate values small.
MathRound(n, d) ==
  IF d % 2 = 0 THEN (n + (d \div 2)) \div d
  ELSE (2 * n + d) \div (2 * d)

\* roundToDecimalPlaces(num, decimalPlaces) for num = n/d given in units of
\* 10^-decimalPlaces: Math.round(num * factor) / factor, in the same units.
roundToDecimalPlaces(n, d) == MathRound(n, d)

\* s without the element at index i
SeqRemove(s, i) ==
  [k \in 1..(Len(s) - 1) |-> IF k < i THEN s[k] ELSE s[k + 1]]

Range(s) == {s[i] : i \in DOMAIN s}

(***************************************************************************)
(* Market data: what marketDataProvider.fetchTicker resolves to.  ok is    *)
(* FALSE for null and for a ticker with a missing field.                   *)
(***************************************************************************)
Ticker(b, a, l) == [ok |-> TRUE, bid |-> b, ask |-> a, last |-> l]
NoTicker == [ok |-> FALSE, bid |-> 0, ask |-> 0, last |-> 0]

\* Math.random() * 100, as far as the comparisons of the code tell draws apart
RandPct == {0, 50}

(***************************************************************************)
(* Orders.  id 0 is an order without a venue id (a newly generated one),   *)
(* status "none" one without a status.                                     *)
(***************************************************************************)
NewOrder(side, price, size, level) ==
  [id |-> 0, side |-> side, type |-> "limit", price |-> price, size |-> size,
   level |-> level, status |-> "none"]

\* applyVariance(base * levelFactor, f) rounded to 8 decimals, levelFactor =
\* 1 + i * 0.1 = (10 + i) / 10 and the variance draw v / SizeVarDen
LevelSize(i, v) ==
  roundToDecimalPlaces(BaseSizePerLevel * (10 + i) * (SizeVarDen + v), 10 * SizeVarDen)

\* spread = baseSpreadPercentage * (1 + currentVolatility * spreadVolatilityMultiplier)
SpreadNum == BaseSpreadNum * (VolatilityDen + VolatilityNum * SpreadVolMultiplier)
SpreadDen == BaseSpreadDen * VolatilityDen

\* targetBestAsk and targetBestBid as fractions num/den with a common den:
\* midPrice * (1 +- spread / 2), midPrice = (bid + ask) / 2
TargetDen == 4 * SpreadDen
TargetAskNum(t) == (t.bid + t.ask) * (2 * SpreadDen + SpreadNum)
TargetBidNum(t) == (t.bid + t.ask) * (2 * SpreadDen - SpreadNum)

\* the first sanity check fails: targetBestBid >= targetBestAsk
Crossed(t) == TargetBidNum(t) >= TargetAskNum(t)
\* after ask *= 1.0001 and bid *= 0.9999 (den becomes TargetDen * WidenDen)
WideAskNum(t) == TargetAskNum(t) * (WidenDen + 1)
WideBidNum(t) == TargetBidNum(t) * (WidenDen - 1)
StillCrossed(t) == Crossed(t) /\ WideBidNum(t) >= WideAskNum(t)

\* the targets the ladder is built from: [ask, bid, den]
Targets(t) ==
  IF Crossed(t)
  THEN [ask |-> WideAskNum(t), bid |-> WideBidNum(t), den |-> TargetDen * WidenDen]
  ELSE [ask |-> TargetAskNum(t), bid |-> TargetBidNum(t), den |-> TargetDen]

\* level i (from 0): price = target -+ i * priceIncrement * levelFactor with
\* priceIncrement = (ask - bid) / 2, all over the denominator 20 * den
LevelBidPrice(tg, i) ==
  roundToDecimalPlaces(20 * tg.bid - i * (10 + i) * (tg.ask - tg.bid), 20 * tg.den)
LevelAskPrice(tg, i) ==
  roundToDecimalPlaces(20 * tg.ask + i * (10 + i) * (tg.ask - tg.bid), 20 * tg.den)

\* the orders of level i; draws[2i+1], draws[2i+2] are the bid and ask size draws
LevelOrders(tg, i, draws) ==
  LET bidPrice == LevelBidPrice(tg, i)
      bidSize  == LevelSize(i, draws[2 * i + 1])
      askPrice == LevelAskPrice(tg, i)
      askSize  == LevelSize(i, draws[2 * i + 2])
  IN IF bidPrice <= 0 THEN <<>>
     ELSE (IF bidSize > 0 THEN <<NewOrder("bid", bidPrice, bidSize, i + 1)>> ELSE <<>>)
          \o (IF askSize > 0 THEN <<NewOrder("ask", askPrice, askSize, i + 1)>> ELSE <<>>)

RECURSIVE LadderFrom(_, _, _)
LadderFrom(tg, i, draws) ==
  IF i >= DepthLevels THEN <<>>
  ELSE LevelOrders(tg, i, draws) \o LadderFrom(tg, i + 1, draws)

\* newOrders of run() for a valid ticker whose targets are not crossed
GenerateLadder(t, draws) == LadderFrom(Targets(t), 0, draws)

(***************************************************************************)
(* core/utils: compareOrders and findMatchingOrder.                        *)
(***************************************************************************)
\* priceDeviation as a fraction: |e.price - n.price| / e.price, or 1 when a
\* price is missing (0 is falsy)
PriceDeviation(e, n) ==
  IF e.price # 0 /\ n.price # 0
  THEN [num |-> Abs(e.price - n.price), den |-> Abs(e.price)]
  ELSE [num |-> 1, den |-> 1]
\* sizeDeviation as a fraction: |e.size - n.size| / e.size
SizeDeviation(e, n) == [num |-> Abs(e.size - n.size), den |-> Abs(e.size)]

WithinDeviation(e, n) ==
  /\ PriceDeviation(e, n).num * MaxPriceDevDen <= MaxPriceDevNum * PriceDeviation(e, n).den
  /\ SizeDeviation(e, n).num * MaxSizeDevDen <= MaxSizeDevNum * SizeDeviation(e, n).den

\* priceDeviation + sizeDeviation over the denominator e.price * e.size, for a
\* candidate within the deviations (both prices present)
TotalDeviationNum(e, n) ==
  PriceDeviation(e, n).num * Abs(e.size) + SizeDeviation(e, n).num * Abs(e.price)

RECURSIVE MatchFrom(_, _, _, _)
\* the loop of findMatchingOrder over cands[i..]: best is the index of
\* bestMatch so far (0 for null); a candidate replaces it only when its total
\* deviation is strictly smaller
MatchFrom(e, cands, i, best) ==
  IF i > Len(cands) THEN best
  ELSE LET n == cands[i]
           better == /\ n.side = e.side /\ n.type = e.type
                     /\ WithinDeviation(e, n)
                     /\ (best = 0 \/ TotalDeviationNum(e, n) < TotalDeviationNum(e, cands[best]))
       IN MatchFrom(e, cands, i + 1, IF better THEN i ELSE best)

\* a matcher that returns the first candidate within the deviations
findFirstWithin(e, cands) ==
  LET ok == {i \in DOMAIN cands :
               /\ cands[i].side = e.side /\ cands[i].type = e.type
               /\ WithinDeviation(e, cands[i])}
  IN IF ok = {} THEN 0 ELSE CHOOSE i \in ok : \A j \in ok : i <= j
\* the index in cands of the order findMatchingOrder returns, 0 for null
findMatchingOrder(e, cands) == MatchFrom(e, cands, 1, 0)

(***************************************************************************)
(* MarketMakerBot.manageOrders, step 1.                                    *)
(***************************************************************************)
\* candidates that still include the new orders already matched
AllCandidates(newOrders, matched) == [k \in 1..Len(newOrders) |-> k]
\* the indices of newOrders not yet matched, in order: the candidates handed
\* to findMatchingOrder
Unmatched(newOrders, matched) ==
  SelectSeq([k \in 1..Len(newOrders) |-> k], LAMBDA k : k \notin matched)

RECURSIVE ClassifyFrom(_, _, _, _, _, _)
\* resting[i..] against newOrders under cancelReplaceRatio = ratio / 100;
\* acc = [matched, keep, cancel]; rnd[i] is the Math.random() draw of resting
\* order i (drawn only on a match)
ClassifyFrom(ratio, resting, newOrders, rnd, i, acc) ==
  IF i > Len(resting) THEN acc
  ELSE LET idx   == Unmatched(newOrders, acc.matched)
           cands == [k \in 1..Len(idx) |-> newOrders[idx[k]]]
           m     == findMatchingOrder(resting[i], cands)
           keep  == m # 0 /\ rnd[i] > ratio
       IN ClassifyFrom(ratio, resting, newOrders, rnd, i + 1,
            IF keep
            THEN [acc EXCEPT !.matched = @ \cup {idx[m]}, !.keep = Append(@, resting[i].id)]
            ELSE [acc EXCEPT !.cancel = Append(@, resting[i].id)])

\* a step 1 that keeps an order on any match, whatever the ratio
ClassifyIgnoringRatio(ratio, resting, newOrders, rnd) ==
  ClassifyFrom(0, resting, newOrders, rnd, 1,
               [matched |-> {}, keep |-> <<>>, cancel |-> <<>>])
\* step 1 of manageOrders under cancelReplaceRatio = ratio / 100
ClassifyWith(ratio, resting, newOrders, rnd) ==
  ClassifyFrom(ratio, resting, newOrders, rnd, 1,
               [matched |-> {}, keep |-> <<>>, cancel |-> <<>>])

\* step 1 of manageOrders under the configured cancelReplaceRatio
Classify(resting, newOrders, rnd) ==
  ClassifyWith(CancelReplaceRatioPct, resting, newOrders, rnd)

\* step 3: ordersToPlace, the new orders not matched
OrdersToPlace(newOrders, matched) ==
  LET idx == Unmatched(newOrders, matched)
  IN [k \in 1..Len(idx) |-> newOrders[idx[k]]]

(***************************************************************************)
(* MarketTakerBot: the recent-price window, the strategy draw and the      *)
(* order synthesis.  The taker configuration is defaultMarketTakerConfig   *)
(* with the override of the first pair.                                    *)
(***************************************************************************)
\* baseOrderSize 0.01 in units of 10^-8
BaseOrderSize == 1000000
\* sizeRandomizationFactor 0.3, in units of 1/SizeVarDen
TakerSizeVarFactor == 3
\* strategyProbabilities in percent
ProbRandom == 50
ProbMomentum == 30
ProbMeanReversion == 10
ProbPassiveLimit == 10
\* meanReversionThreshold 0.003
MeanRevThresholdNum == 3
MeanRevThresholdDen == 1000
\* the constant factors of the limit prices are multiples of 1/PriceFactorDen
PriceFactorDen == 10000
\* getRandomArbitrary draws u in [0, 1) are multiples of 1/UDen
UDen == 2

TakerSizeVarDraws == {-TakerSizeVarFactor, 0}
UDraws == {0, 1}
Sides == {"bid", "ask"}
\* Math.random() * 100 of chooseStrategy: one draw in each band, and none beyond
StrategyDraws == {25, 65, 85, 95}

\* an update that drops the new price when the window is full
updateKeepsOldest(recent, lastPrice) ==
  IF Len(recent) >= MomentumLookbackTicks THEN recent ELSE Append(recent, lastPrice)
\* updateRecentPrices: push, then shift when longer than the lookback
updateRecentPrices(recent, lastPrice) ==
  LET pushed == Append(recent, lastPrice)
  IN IF Len(pushed) > MomentumLookbackTicks THEN Tail(pushed) ELSE pushed

\* strategyProbabilities in percent, as configured
StrategyProbabilities ==
  [random |-> ProbRandom, momentum |-> ProbMomentum,
   meanReversion |-> ProbMeanReversion, passiveLimit |-> ProbPassiveLimit]

\* the strategies in the order chooseStrategy tests them
StrategyOrder == <<"random", "momentum", "meanReversion", "passiveLimit">>

RECURSIVE StrategyFrom(_, _, _, _)
\* the tests of chooseStrategy from the i-th on: cumulativeProb is the sum
\* of the probabilities added so far; "random" is the fallback
StrategyFrom(probs, r, i, cumulativeProb) ==
  IF i > Len(StrategyOrder) THEN "random"
  ELSE LET cum == cumulativeProb + probs[StrategyOrder[i]]
       IN IF r < cum THEN StrategyOrder[i] ELSE StrategyFrom(probs, r, i + 1, cum)

\* a chooseStrategy that tests the draw against each probability on its own
chooseStrategyNoSum(probs, r) ==
  IF r < probs.random THEN "random"
  ELSE IF r < probs.momentum THEN "momentum"
  ELSE IF r < probs.meanReversion THEN "meanReversion"
  ELSE IF r < probs.passiveLimit THEN "passiveLimit"
  ELSE "random"
\* chooseStrategy with rand = r / 100 under the probabilities probs
chooseStrategyWith(probs, r) == StrategyFrom(probs, r, 1, 0)

\* chooseStrategy with rand = r / 100 under the configured probabilities
chooseStrategy(r) == chooseStrategyWith(StrategyProbabilities, r)

RECURSIVE SeqSum(_)
SeqSum(s) == IF s = <<>> THEN 0 ELSE Head(s) + SeqSum(Tail(s))

\* the side the momentum strategy decides, "" for none
MomentumSide(recent) ==
  IF Len(recent) >= 2
  THEN LET trend == recent[Len(recent)] - recent[1]
       IN IF trend > 0 THEN "bid" ELSE IF trend < 0 THEN "ask" ELSE ""
  ELSE ""

\* a meanReversion that trades on any deviation from the average
MeanReversionNoBand(recent, last) ==
  IF Len(recent) > 1
  THEN IF last * Len(recent) > SeqSum(recent) THEN "ask"
       ELSE IF last * Len(recent) < SeqSum(recent) THEN "bid" ELSE ""
  ELSE ""
\* the side the meanReversion strategy decides, "" for none:
\* deviation = (last - avg) / avg against +-threshold, avg = sum / n
\* (the window holds positive prices when this is evaluated)
MeanReversionSide(recent, last) ==
  IF Len(recent) > 1
  THEN LET sum == SeqSum(recent)
           n   == Len(recent)
           \* deviation = (last * n - sum) / sum
           dev == last * n - sum
       IN IF dev * MeanRevThresholdDen > MeanRevThresholdNum * sum THEN "ask"
          ELSE IF dev * MeanRevThresholdDen < -(MeanRevThresholdNum * sum) THEN "bid"
          ELSE ""
  ELSE ""

\* min and max of fractions over the same denominator
Min(a, b) == IF a < b THEN a ELSE b
Max(a, b) == IF a > b THEN a ELSE b

\* roundToDecimalPlaces(n / d, 5) for prices in units of 10^-5 / g: the
\* nearest multiple of g
roundPrice(g, n, d) == g * MathRound(n, d * g)

\* the passiveLimit price: ticker * (1 +- getRandomArbitrary(0.0001, 0.0005))
\* rounded to 5 decimals, then kept from crossing the opposite touch
PassivePrice(g, t, side, u) ==
  LET \* getRandomArbitrary(0.0001, 0.0005) = (1 + 4u) / 10000, u = un / UDen
      offNum == UDen + 4 * u
      offDen == PriceFactorDen * UDen
      raw == IF side = "bid"
             THEN roundPrice(g, t.bid * (offDen + offNum), offDen)
             ELSE roundPrice(g, t.ask * (offDen - offNum), offDen)
      p1 == IF side = "bid" /\ raw > t.ask THEN t.ask
            ELSE IF side = "ask" /\ raw < t.bid THEN t.bid ELSE raw
      p2 == IF p1 <= t.bid /\ side = "ask" THEN t.bid ELSE p1
  IN IF p2 >= t.ask /\ side = "bid" THEN t.ask ELSE p2

\* the price of a non-passive limit order, as a numerator over PriceFactorDen
\* (before the rounding of the final step)
LimitPriceNum(g, t, side, u) ==
  LET D == PriceFactorDen
      \* getRandomArbitrary(lo, hi) = lo + u * (hi - lo), over 2 * D * UDen
      midN == (t.bid + t.ask) * D * UDen
      loN  == IF side = "bid" THEN t.bid * 9995 * 2 * UDen ELSE midN
      hiN  == IF side = "bid" THEN midN ELSE t.ask * 10005 * 2 * UDen
      drawN == loN * UDen + u * (hiN - loN)
      rounded == roundPrice(g, drawN, 2 * D * UDen * UDen) * D
      clamped == IF side = "bid"
                 THEN Max(Min(rounded, t.ask * 9999), t.bid * 9900)
                 ELSE Min(Max(rounded, t.bid * 10001), t.ask * 10100)
  IN IF side = "bid" /\ clamped >= t.ask * D THEN t.ask * D
     ELSE IF side = "ask" /\ clamped <= t.bid * D THEN t.bid * D
     ELSE clamped

NoOrder == [none |-> TRUE, side |-> "", type |-> "", price |-> 0, size |-> 0]

\* a final check that leaves the order type as decided
KeepType(type0, price0) == type0
\* the order type after the final sanity check: a limit order without a
\* price, or with a price of 0 or less, falls back to a market order
FinalType(type0, price0) ==
  IF type0 = "limit" /\ price0 <= 0 THEN "market" ELSE type0

\* a final check that leaves the rounded price as it is
KeepPrice(t, side, price) == price
\* the limit price after the final sanity check: a bid above the ask is
\* moved to the ask, an ask below the bid to the bid
FinalPrice(t, side, price) ==
  IF side = "bid" /\ price > t.ask THEN t.ask
  ELSE IF side = "ask" /\ price < t.bid THEN t.bid
  ELSE price

\* generateOrderBasedOnStrategy for a ticker in units of 10^-5 / g:
\* d = [market, sizeVar, coin, u] are the draws (isMarketOrder, the size
\* variance, the coin flip of the side, the uniform draw of the price).
\* price 0 stands for undefined.
generateOrderOnGrid(g, strategy, t, recent, d) ==
  LET size == roundToDecimalPlaces(BaseOrderSize * (SizeVarDen + d.sizeVar), SizeVarDen)
      side == CASE strategy = "momentum" ->
                     (IF MomentumSide(recent) # "" THEN MomentumSide(recent) ELSE d.coin)
                [] strategy = "meanReversion" -> MeanReversionSide(recent, t.last)
                [] OTHER -> d.coin
      type0 == IF strategy = "passiveLimit" THEN "limit"
               ELSE IF d.market THEN "market" ELSE "limit"
      \* the price after lines 248-274, 0 for undefined
      price0 == IF strategy = "passiveLimit"
                THEN roundPrice(g, PassivePrice(g, t, side, d.u), 1)
                ELSE IF type0 = "limit"
                THEN roundPrice(g, LimitPriceNum(g, t, side, d.u), PriceFactorDen)
                ELSE 0
      type == FinalType(type0, price0)
      price == IF type # "limit" THEN 0 ELSE FinalPrice(t, side, price0)
  IN IF size <= 0 THEN NoOrder
     ELSE IF t.bid = 0 \/ t.ask = 0 \/ t.last = 0 THEN NoOrder
     ELSE IF side = "" THEN NoOrder
     ELSE [none |-> FALSE, side |-> side,
           type |-> type,
           price |-> price, size |-> size]

\* generateOrderBasedOnStrategy for a ticker in units of 10^-5
generateOrderBasedOnStrategy(strategy, t, recent, d) ==
  generateOrderOnGrid(1, strategy, t, recent, d)

TakerDraws ==
  [market : BOOLEAN, sizeVar : TakerSizeVarDraws, coin : Sides, u : UDraws]

(***************************************************************************)
(* State.                                                                  *)
(***************************************************************************)
(***************************************************************************)
(* The record of a cycle: the ticker fetchTicker delivered, the desired    *)
(* orders, the ids classified keep and cancel, the orders to place, how    *)
(* the batch cancel settled and the orders placed and refused so far.      *)
(* phase is "none" before the first cycle, "error" when fetchTicker        *)
(* rejected, "skip" on a skip path, "cancel" and "place" while the cycle   *)
(* awaits cancelOrders or submitOrder, and "done" when it has returned.    *)
(* The cycles are recorded in the specification of the cycles only.        *)
(***************************************************************************)
CycleLog(phase, ticker, desired, keep, cancel, toPlace) ==
  [phase |-> phase, ticker |-> ticker, desired |-> desired, keep |-> keep,
   cancel |-> cancel, toPlace |-> toPlace, cancelled |-> "none",
   placed |-> <<>>, refused |-> <<>>]
NoCycle == CycleLog("none", NoTicker, <<>>, {}, {}, <<>>)
\* the record of a bot whose cycles are not recorded
Unrecorded == CycleLog("off", NoTicker, <<>>, {}, {}, <<>>)
PhaseFrom(toPlace) == IF toPlace # <<>> THEN "place" ELSE "done"

\* no function is applied on its own while the program runs
NoCall == [fn |-> "none", args |-> <<>>, result |-> <<>>, done |-> FALSE]

VARIABLES
  isRunning,          \* BaseBot.isRunning of each bot
  timeoutId,          \* BaseBot.timeoutId of each bot: a handle, or NullHandle
  timers,             \* the setTimeout handles of each bot that are still pending
  runs,               \* the run() invocations of each bot in flight, oldest first
  activeMakerOrders,  \* MarketMakerBot.activeMakerOrders, in insertion order
  recentPrices,       \* MarketTakerBot.recentPrices
  lastCall,           \* history: what the last start()/stop() call on each bot did
  venue,              \* the order ids of each pair's maker that are live on the venue
  pairRunning,        \* PairTrader.isRunning
  pstart,             \* where each PairTrader.start() call stands
  sleepLeft,          \* ms left of the warm-up sleep of each PairTrader.start()
  mmStartAge,         \* ms since PairTrader.start() started the maker (up to WarmupMs)
  mgrRunning,         \* BotManager.isRunning
  traders,            \* the keys of BotManager.traders
  mstart,             \* where main's BotManager.start() call stands
  micro,              \* Node's microtask queue: the continuations ready to run
  shutdowns,          \* ms left of the grace sleep of each BotManager.shutdown()
  signals,            \* the termination signals delivered so far
  exitCode,           \* the code process.exit was called with, -1 while running
  clientReady,        \* whether each bot's client has initialized and is authenticated
  cycle,              \* history: what the cycle each bot began last has done so far
  call                \* a function of the program applied on its own: arguments and result

botVars == <<isRunning, timeoutId, timers, runs, activeMakerOrders, recentPrices,
             lastCall, venue, cycle>>
fleetVars == <<pairRunning, pstart, sleepLeft, mmStartAge, mgrRunning, traders,
               mstart, micro, shutdowns, signals, exitCode, clientReady, call>>
vars == <<isRunning, timeoutId, timers, runs, activeMakerOrders, recentPrices,
          lastCall, venue, pairRunning, pstart, sleepLeft, mmStartAge,
          mgrRunning, traders, mstart, micro, shutdowns, signals, exitCode,
          clientReady, cycle, call>>

\* config.pairs, in order
PairOrder == <<"BTC-USDB", "BTC-EURB">>

Init ==
  /\ isRunning = [b \in Bots |-> FALSE]
  /\ timeoutId = [b \in Bots |-> NullHandle]
  /\ timers = [b \in Bots |-> {}]
  /\ runs = [b \in Bots |-> <<>>]
  /\ activeMakerOrders = [p \in Pairs |-> <<>>]
  /\ recentPrices = [p \in Pairs |-> <<>>]
  /\ lastCall = [b \in Bots |-> "none"]
  /\ cycle = [b \in Bots |-> Unrecorded]
  /\ venue = [p \in Pairs |-> {}]
  /\ pairRunning = [p \in Pairs |-> FALSE]
  /\ pstart = [p \in Pairs |-> "idle"]
  /\ sleepLeft = [p \in Pairs |-> 0]
  /\ mmStartAge = [p \in Pairs |-> 0]
  /\ mgrRunning = FALSE
  /\ traders = {}
  /\ mstart = "idle"
  /\ micro = <<>>
  /\ shutdowns = <<>>
  /\ signals = 0
  /\ exitCode = -1
  /\ clientReady = [b \in Bots |-> FALSE]
  /\ call = NoCall

\* the cycle of bot b is now recorded as log
Record(b, log) ==
  cycle' = IF cycle[b].phase = "off" THEN cycle ELSE [cycle EXCEPT ![b] = log]

\* a macrotask may run: the process lives and no microtask is waiting
Macrotask == exitCode = -1 /\ micro = <<>>

(***************************************************************************)
(* BaseBot: the timer state of a bot and scheduleNextRun.                  *)
(***************************************************************************)
TimerState(b) ==
  [isRunning |-> isRunning[b], timeoutId |-> timeoutId[b], timers |-> timers[b]]

SetTimerState(b, ts) ==
  /\ isRunning' = [isRunning EXCEPT ![b] = ts.isRunning]
  /\ timeoutId' = [timeoutId EXCEPT ![b] = ts.timeoutId]
  /\ timers' = [timers EXCEPT ![b] = ts.timers]

\* the handle setTimeout returns: one that is neither pending nor held in
\* timeoutId (Node's handles are fresh objects; the least free one stands
\* for them)
NewHandle(used) ==
  IF Handles \subseteq used THEN MaxHandle
  ELSE CHOOSE h \in Handles \ used : \A g \in Handles \ used : h <= g

\* clearTimeout(h): a handle that fired or was cleared is left alone
clearTimeout(pending, h) == pending \ {h}

\* scheduleNextRun that schedules also when the bot is stopped
scheduleNextRunWhenStopped(ts) ==
  LET cleared == IF ts.timeoutId # NullHandle
                 THEN clearTimeout(ts.timers, ts.timeoutId) ELSE ts.timers
      h == NewHandle(cleared \cup {ts.timeoutId})
  IN [ts EXCEPT !.timeoutId = h, !.timers = cleared \cup {h}]

\* scheduleNextRun that leaves the timer held in timeoutId pending
scheduleNextRunNoClear(ts) ==
  IF ~ts.isRunning THEN ts
  ELSE LET h == NewHandle(ts.timers \cup {ts.timeoutId})
       IN [ts EXCEPT !.timeoutId = h, !.timers = ts.timers \cup {h}]

scheduleNextRun(ts) ==
  IF ~ts.isRunning THEN ts
  ELSE LET cleared == IF ts.timeoutId # NullHandle
                      THEN clearTimeout(ts.timers, ts.timeoutId) ELSE ts.timers
           h == NewHandle(cleared \cup {ts.timeoutId})
       IN [ts EXCEPT !.timeoutId = h, !.timers = cleared \cup {h}]

\* MarketMakerBot.start / MarketTakerBot.start
MMStart(ts) ==
  IF ts.isRunning THEN ts ELSE scheduleNextRun([ts EXCEPT !.isRunning = TRUE])
MTStart(ts) ==
  IF ts.isRunning THEN ts ELSE scheduleNextRun([ts EXCEPT !.isRunning = TRUE])

\* a stop that clears the running flag and forgets the handle, but leaves
\* the timer pending
StopKeepsTimer(ts) ==
  [isRunning |-> FALSE, timeoutId |-> NullHandle, timers |-> ts.timers]

\* the timer part of MarketMakerBot.stop / MarketTakerBot.stop
MMStopTimer(ts) ==
  [isRunning |-> FALSE, timeoutId |-> NullHandle,
   timers |-> IF ts.timeoutId # NullHandle
              THEN clearTimeout(ts.timers, ts.timeoutId) ELSE ts.timers]
MTStop(ts) ==
  [isRunning |-> FALSE, timeoutId |-> NullHandle,
   timers |-> IF ts.timeoutId # NullHandle
              THEN clearTimeout(ts.timers, ts.timeoutId) ELSE ts.timers]
\* a stop that leaves the map as it is
StopKeepsOrders(orders) == orders
\* the order part of MarketMakerBot.stop: the cancels are only logged (no
\* request goes to the client), then activeMakerOrders.clear()
MMStopOrders(orders) == <<>>

\* what a stop() call on bot b is recorded as: a repeated stop (no start()
\* since the last stop()), one that cancelled a pending timer, one that found
\* no pending timer but a run() in flight, or one on an idle bot
StopKinds == {"stop-again", "stop-cleared", "stop-inflight", "stop-idle"}
StopKind(b) ==
  IF lastCall[b] \in StopKinds THEN "stop-again"
  ELSE IF timeoutId[b] \in timers[b] THEN "stop-cleared"
  ELSE IF runs[b] # <<>> THEN "stop-inflight"
  ELSE "stop-idle"

\* bot b runs start()
BotStart(b) ==
  /\ SetTimerState(b, IF b[2] = "mm" THEN MMStart(TimerState(b)) ELSE MTStart(TimerState(b)))
  /\ lastCall' = [lastCall EXCEPT ![b] = "start"]
  /\ UNCHANGED <<runs, activeMakerOrders, recentPrices, venue, cycle>>

\* bot b runs stop()
BotStop(b) ==
  /\ SetTimerState(b, IF b[2] = "mm" THEN MMStopTimer(TimerState(b)) ELSE MTStop(TimerState(b)))
  /\ IF b[2] = "mm"
     THEN activeMakerOrders' = [activeMakerOrders EXCEPT ![b[1]] = MMStopOrders(@)]
     ELSE UNCHANGED activeMakerOrders
  /\ lastCall' = [lastCall EXCEPT ![b] = StopKind(b)]
  /\ UNCHANGED <<runs, recentPrices, venue, cycle>>

(***************************************************************************)
(* The run() invocations in flight.                                        *)
(***************************************************************************)
\* pc: the call the invocation awaits; toCancel: the venue ids of ordersToCancel;
\* toPlace: the orders still to submit, the one in flight first
Run(pc, toCancel, toPlace) == [pc |-> pc, toCancel |-> toCancel, toPlace |-> toPlace]

\* the timer callback of scheduleNextRun: run() when the bot is running,
\* up to its await of fetchTicker
TimerFire(b) ==
  /\ Macrotask
  /\ \E h \in timers[b] :
       /\ timers' = [timers EXCEPT ![b] = @ \ {h}]
       /\ IF isRunning[b]
          THEN /\ Len(runs[b]) < MaxRuns
               /\ runs' = [runs EXCEPT ![b] = Append(@, Run("fetch", {}, <<>>))]
          ELSE UNCHANGED runs
  /\ UNCHANGED <<isRunning, timeoutId, activeMakerOrders, recentPrices, venue>>
  /\ UNCHANGED <<lastCall, cycle, fleetVars>>

\* a run() whose skip paths return without scheduling the next cycle
FinishRunSkipUnscheduled(b, i, skipped) ==
  /\ runs' = [runs EXCEPT ![b] = SeqRemove(@, i)]
  /\ SetTimerState(b, IF skipped THEN TimerState(b)
                      ELSE scheduleNextRun(TimerState(b)))

\* run() i of bot b returns: its finally block calls scheduleNextRun; on a
\* skip path scheduleNextRun was called once before, ahead of the return
FinishRun(b, i, skipped) ==
  /\ runs' = [runs EXCEPT ![b] = SeqRemove(@, i)]
  /\ SetTimerState(b, IF skipped
                      THEN scheduleNextRun(scheduleNextRun(TimerState(b)))
                      ELSE scheduleNextRun(TimerState(b)))

(***************************************************************************)
(* MarketMakerBot.run and manageOrders.                                    *)
(***************************************************************************)
\* the ids referenced by the maker of p: live or tracked orders and the
\* orders held by the invocations in flight
UsedIds(p) ==
  venue[p] \cup {o.id : o \in Range(activeMakerOrders[p])}
           \cup UNION {r.toCancel : r \in Range(runs[MM(p)])}
FreeIds(p, Ids) == Ids \ UsedIds(p)

\* manageOrders from step 3 on: submit the first order to place, or return
\* to run(), whose finally block reschedules
MMPlaceOrFinish(p, i, toPlace) ==
  IF toPlace # <<>>
  THEN /\ runs' = [runs EXCEPT ![MM(p)][i] = Run("submit", {}, toPlace)]
       /\ UNCHANGED <<isRunning, timeoutId, timers>>
  ELSE FinishRun(MM(p), i, FALSE)

\* a step 2 that sends cancelOrders an empty list of ids
NoIdsToCancel(cancel) == {}
\* orderIdsToCancel: the ids of ordersToCancel (every resting order has one)
OrderIdsToCancel(cancel) == Range(cancel)

\* fetchTicker settles for run() i of the maker of p; T are the tickers and
\* SD the size draws the environment may deliver
MMFetchReturn(p, T, SD) ==
  /\ Macrotask
  /\ \E i \in DOMAIN runs[MM(p)] :
       /\ runs[MM(p)][i].pc = "fetch"
       /\ \/ \* fetchTicker rejects: caught by run()
             /\ FinishRun(MM(p), i, FALSE)
             /\ Record(MM(p), CycleLog("error", NoTicker, <<>>, {}, {}, <<>>))
          \/ \E t \in T :
               IF ~t.ok \/ StillCrossed(t)
               THEN \* no valid ticker, or bid >= ask after widening: skip
                    /\ FinishRun(MM(p), i, TRUE)
                    /\ Record(MM(p), CycleLog("skip", t, <<>>, {}, {}, <<>>))
               ELSE \E draws \in [1..(2 * DepthLevels) -> SD],
                       rnd \in [1..Len(activeMakerOrders[p]) -> RandPct] :
                    \E newOrders \in {GenerateLadder(t, draws)} :
                    \E c \in {Classify(activeMakerOrders[p], newOrders, rnd)} :
                    \E toPlace \in {OrdersToPlace(newOrders, c.matched)} :
                         /\ Record(MM(p),
                                   CycleLog(IF c.cancel # <<>> THEN "cancel"
                                            ELSE PhaseFrom(toPlace),
                                            t, newOrders, Range(c.keep),
                                            Range(c.cancel), toPlace))
                         /\ IF c.cancel # <<>>
                            THEN \* step 2: client.cancelOrders(orderIdsToCancel)
                                 /\ runs' = [runs EXCEPT ![MM(p)][i] =
                                               Run("cancel", OrderIdsToCancel(c.cancel), toPlace)]
                                 /\ UNCHANGED <<isRunning, timeoutId, timers>>
                            ELSE MMPlaceOrFinish(p, i, toPlace)
  /\ UNCHANGED <<activeMakerOrders, recentPrices, venue>>
  /\ UNCHANGED <<lastCall, fleetVars>>

\* a cancel step that has the venue cancel the orders and keeps their entries
CancelKeepsEntries(orders, toCancel) == orders
\* a cancel step that deletes the entries of the orders it did not cancel
CancelDeletesOthers(orders, toCancel) == SelectSeq(orders, LAMBDA o : o.id \in toCancel)
\* step 2 after cancelOrders resolved: the entries holding the cancelled
\* orders are deleted
DeleteCancelled(orders, toCancel) == SelectSeq(orders, LAMBDA o : o.id \notin toCancel)

\* a cancel step that deletes the entries although cancelOrders rejected
CancelFailureDeletes(orders, toCancel) ==
  SelectSeq(orders, LAMBDA o : o.id \notin toCancel)
\* step 2 after cancelOrders rejected: the error is logged
CancelFailed(orders, toCancel) == orders

\* client.cancelOrders settles for run() i of the maker of p
MMCancelReturn(p) ==
  /\ Macrotask
  /\ \E i \in DOMAIN runs[MM(p)] :
       LET r == runs[MM(p)][i] IN
       /\ r.pc = "cancel"
       /\ \/ \* success: the venue drops the orders, the map entries holding
             \* these orders are deleted
             /\ venue' = [venue EXCEPT ![p] = @ \ r.toCancel]
             /\ activeMakerOrders' =
                  [activeMakerOrders EXCEPT ![p] = DeleteCancelled(@, r.toCancel)]
             /\ Record(MM(p), [cycle[MM(p)] EXCEPT !.cancelled = "ok",
                                                      !.phase = PhaseFrom(r.toPlace)])
          \/ \* failure: logged
             /\ UNCHANGED venue
             /\ activeMakerOrders' =
                  [activeMakerOrders EXCEPT ![p] = CancelFailed(@, r.toCancel)]
             /\ Record(MM(p), [cycle[MM(p)] EXCEPT !.cancelled = "failed",
                                                      !.phase = PhaseFrom(r.toPlace)])
       /\ MMPlaceOrFinish(p, i, r.toPlace)
  /\ UNCHANGED recentPrices
  /\ UNCHANGED <<lastCall, fleetVars>>

\* a placement loop that a failed submitOrder call ends
RefusalEndsLoop(toPlace) == <<>>
\* step 3 after a submitOrder call that failed: the loop goes on with the
\* orders after the one refused
AfterRefusal(toPlace) == Tail(toPlace)

\* client.submitOrder settles for run() i of the maker of p; Ids are the
\* order ids the venue hands out
MMSubmitReturn(p, Ids) ==
  /\ Macrotask
  /\ \E i \in DOMAIN runs[MM(p)] :
       LET r == runs[MM(p)][i] IN
       \/ \* success with a venue id: activeMakerOrders.set(orderId, finalOrder)
          \E id \in FreeIds(p, Ids) :
            LET finalOrder == [Head(r.toPlace) EXCEPT !.id = id, !.status = "new"] IN
            /\ r.pc = "submit"
            /\ \A g \in FreeIds(p, Ids) : id <= g
            /\ venue' = [venue EXCEPT ![p] = @ \cup {id}]
            /\ activeMakerOrders' =
                 [activeMakerOrders EXCEPT ![p] = Append(@, finalOrder)]
            /\ Record(MM(p), [cycle[MM(p)] EXCEPT
                                !.placed = Append(@, finalOrder),
                                !.phase = PhaseFrom(Tail(r.toPlace))])
            /\ MMPlaceOrFinish(p, i, Tail(r.toPlace))
       \/ \* the call fails, or its result carries no order id
          /\ r.pc = "submit"
          /\ UNCHANGED <<venue, activeMakerOrders>>
          /\ Record(MM(p), [cycle[MM(p)] EXCEPT
                              !.refused = Append(@, Head(r.toPlace)),
                              !.phase = PhaseFrom(AfterRefusal(r.toPlace))])
          /\ MMPlaceOrFinish(p, i, AfterRefusal(r.toPlace))
  /\ UNCHANGED recentPrices
  /\ UNCHANGED <<lastCall, fleetVars>>

(***************************************************************************)
(* MarketTakerBot.run.                                                     *)
(***************************************************************************)
\* fetchTicker settles for run() i of the taker of p
MTFetchReturn(p, T) ==
  /\ Macrotask
  /\ \E i \in DOMAIN runs[MT(p)] :
       /\ runs[MT(p)][i].pc = "fetch"
       /\ \/ \* fetchTicker rejects: caught by run()
             /\ FinishRun(MT(p), i, FALSE)
             /\ UNCHANGED recentPrices
             /\ Record(MT(p), CycleLog("error", NoTicker, <<>>, {}, {}, <<>>))
          \/ \E t \in T :
               IF ~t.ok
               THEN /\ FinishRun(MT(p), i, TRUE)
                    /\ UNCHANGED recentPrices
                    /\ Record(MT(p), CycleLog("skip", t, <<>>, {}, {}, <<>>))
               ELSE \E r \in StrategyDraws, d \in TakerDraws :
                      LET recent == updateRecentPrices(recentPrices[p], t.last)
                          order == generateOrderBasedOnStrategy(chooseStrategy(r), t, recent, d)
                      IN /\ recentPrices' = [recentPrices EXCEPT ![p] = recent]
                         /\ Record(MT(p),
                                   CycleLog(IF order.none THEN "done" ELSE "place",
                                            t, <<>>, {}, {}, <<>>))
                         /\ IF order.none
                            THEN FinishRun(MT(p), i, FALSE)
                            ELSE \* client.submitOrder(flashnetOrder)
                                 /\ runs' = [runs EXCEPT ![MT(p)][i] = Run("submit", {}, <<>>)]
                                 /\ UNCHANGED <<isRunning, timeoutId, timers>>
  /\ UNCHANGED <<activeMakerOrders, venue>>
  /\ UNCHANGED <<lastCall, fleetVars>>

\* client.submitOrder settles (either way) for run() i of the taker of p
MTSubmitReturn(p) ==
  /\ Macrotask
  /\ \E i \in DOMAIN runs[MT(p)] :
       /\ runs[MT(p)][i].pc = "submit"
       /\ FinishRun(MT(p), i, FALSE)
  /\ Record(MT(p), [cycle[MT(p)] EXCEPT !.phase = "done"])
  /\ UNCHANGED <<activeMakerOrders, recentPrices, venue>>
  /\ UNCHANGED <<lastCall, fleetVars>>

(***************************************************************************)
(* The bot specification: a harness calls start() and stop() of one bot    *)
(* of the first pair at any time.  Bots share no state, so a behaviour     *)
(* exercises one bot: a bot is started only while every other bot is as    *)
(* constructed.                                                            *)
(***************************************************************************)
HarnessBots == {MM(PairOrder[1]), MT(PairOrder[1])}
\* the inputs the environment delivers to the bots under the harness
BotTickers == {NoTicker, Ticker(100, 101, 100), Ticker(0, 0, 0)}
BotSizeDraws == {0}

AsConstructed(b) ==
  /\ ~isRunning[b] /\ timeoutId[b] = NullHandle /\ timers[b] = {} /\ runs[b] = <<>>
  /\ activeMakerOrders[b[1]] = <<>> /\ venue[b[1]] = {}
  /\ recentPrices[b[1]] = <<>>
  /\ lastCall[b] = "none"

HarnessStart(b) ==
  /\ Macrotask
  /\ \A c \in Bots \ {b} : AsConstructed(c)
  /\ BotStart(b)
  /\ UNCHANGED fleetVars

HarnessStop(b) ==
  /\ Macrotask
  /\ BotStop(b)
  /\ UNCHANGED fleetVars

NextBot ==
  \/ \E b \in HarnessBots : HarnessStart(b)
  \/ \E b \in HarnessBots : HarnessStop(b)
  \/ \E b \in Bots : TimerFire(b)
  \/ \E p \in Pairs : MMFetchReturn(p, BotTickers, BotSizeDraws)
  \/ \E p \in Pairs : MMCancelReturn(p)
  \/ \E p \in Pairs : MMSubmitReturn(p, OrderIds)
  \/ \E p \in Pairs : MTFetchReturn(p, BotTickers)
  \/ \E p \in Pairs : MTSubmitReturn(p)

SpecBot == Init /\ [][NextBot]_vars

(***************************************************************************)
(* The specification of the cycles: a bot of the first pair is started     *)
(* and left running, the ticker moves and every fetch, cancel and submit   *)
(* call may fail.  The cycles are recorded.                                *)
(***************************************************************************)
\* the order ids the venue hands out to the maker
CycleOrderIds == 1..MaxCycleOrderId
\* the inputs the environment delivers to the bot
CycleTickers ==
  {NoTicker, Ticker(0, 0, 0), Ticker(100, 101, 100), Ticker(101, 101, 101)}
CycleSizeDraws == {0}

InitCycle ==
  /\ isRunning = [b \in Bots |-> FALSE]
  /\ timeoutId = [b \in Bots |-> NullHandle]
  /\ timers = [b \in Bots |-> {}]
  /\ runs = [b \in Bots |-> <<>>]
  /\ activeMakerOrders = [p \in Pairs |-> <<>>]
  /\ recentPrices = [p \in Pairs |-> <<>>]
  /\ lastCall = [b \in Bots |-> "none"]
  /\ cycle = [b \in Bots |-> NoCycle]
  /\ venue = [p \in Pairs |-> {}]
  /\ pairRunning = [p \in Pairs |-> FALSE]
  /\ pstart = [p \in Pairs |-> "idle"]
  /\ sleepLeft = [p \in Pairs |-> 0]
  /\ mmStartAge = [p \in Pairs |-> 0]
  /\ mgrRunning = FALSE
  /\ traders = {}
  /\ mstart = "idle"
  /\ micro = <<>>
  /\ shutdowns = <<>>
  /\ signals = 0
  /\ exitCode = -1
  /\ clientReady = [b \in Bots |-> FALSE]
  /\ call = NoCall

NextCycle ==
  \/ \E b \in HarnessBots : HarnessStart(b)
  \/ \E b \in Bots : TimerFire(b)
  \/ \E p \in Pairs : MMFetchReturn(p, CycleTickers, CycleSizeDraws)
  \/ \E p \in Pairs : MMCancelReturn(p)
  \/ \E p \in Pairs : MMSubmitReturn(p, CycleOrderIds)
  \/ \E p \in Pairs : MTFetchReturn(p, CycleTickers)
  \/ \E p \in Pairs : MTSubmitReturn(p)

SpecCycle == InitCycle /\ [][NextCycle]_vars

(***************************************************************************)
(* main(), BotManager and PairTrader.                                      *)
(*                                                                         *)
(* micro holds the work left in the running macrotask, in execution        *)
(* order: the trader.stop() calls BotManager.stop() makes in its loop and  *)
(* the continuations of awaits on settled promises.                        *)
(***************************************************************************)
PairStopTask(p) == [kind |-> "pairStop", pair |-> p]
MmStopTask(p) == [kind |-> "mmStop", pair |-> p]
StopDoneTask == [kind |-> "stopDone", pair |-> ""]

\* the bots PairTrader.stop() stops, in order
PairStopSecond(p) == MM(p)
PairStopMakerFirst(p) == MM(p)
PairStopFirst(p) == MT(p)

\* the values of Array.from(this.traders.values()), as the start() or stop()
\* calls to make
RECURSIVE TraderCalls(_, _)
TraderCalls(i, keys) ==
  IF i > Len(PairOrder) THEN <<>>
  ELSE (IF PairOrder[i] \in keys THEN <<PairStopTask(PairOrder[i])>> ELSE <<>>)
       \o TraderCalls(i + 1, keys)

\* main() calls botManager.start(), which calls initialize(), which awaits
\* marketDataProvider.initialize()
MainStart ==
  /\ Macrotask
  /\ mstart = "idle"
  /\ mstart' = IF mgrRunning THEN "waiting" ELSE "mdInit"
  /\ UNCHANGED <<pairRunning, pstart, sleepLeft, mmStartAge, mgrRunning, traders,
                 micro, shutdowns, signals, clientReady, call, exitCode>>
  /\ UNCHANGED botVars

\* marketDataProvider.initialize() settles
MdInitReturn ==
  /\ Macrotask
  /\ mstart = "mdInit"
  /\ \/ \* resolved: the traders are created, isRunning = true, and every
        \* trader.start() runs up to its await of mmBot.initializeClient()
        /\ traders' = traders \cup Range(PairOrder)
        /\ mgrRunning' = TRUE
        /\ pstart' = [p \in Pairs |-> "initMM"]
        /\ mstart' = "starting"
     \/ \* rejected: initialize() returns false, start() returns, main()
        \* waits for a signal
        /\ mstart' = "initFailed"
        /\ UNCHANGED <<traders, mgrRunning, pstart>>
  /\ UNCHANGED <<pairRunning, sleepLeft, mmStartAge, micro, shutdowns, signals, clientReady, call,
                 exitCode>>
  /\ UNCHANGED botVars

\* PairTrader.start() of p returns: Promise.all resolves with the last one,
\* BotManager.start() returns and main() waits for a signal
PairStartReturns(p) ==
  /\ pstart' = [pstart EXCEPT ![p] = "done"]
  /\ mstart' = IF \A q \in Pairs \ {p} : pstart[q] = "done" THEN "waiting" ELSE mstart

\* PairTrader.start() that does not wait after mmBot.start()
PairStartNoWarmup(p) ==
  /\ pairRunning' = [pairRunning EXCEPT ![p] = TRUE]
  /\ BotStart(MM(p))
  /\ sleepLeft' = [sleepLeft EXCEPT ![p] = 0]
  /\ mmStartAge' = [mmStartAge EXCEPT ![p] = 0]
  /\ pstart' = [pstart EXCEPT ![p] = "warmup"]
  /\ UNCHANGED mstart

\* PairTrader.start() from isRunning = true to the warm-up: mmBot.start(),
\* then setTimeout(resolve, 2000)
PairStartMaker(p) ==
  /\ pairRunning' = [pairRunning EXCEPT ![p] = TRUE]
  /\ BotStart(MM(p))
  /\ sleepLeft' = [sleepLeft EXCEPT ![p] = WarmupMs]
  /\ mmStartAge' = [mmStartAge EXCEPT ![p] = 0]
  /\ pstart' = [pstart EXCEPT ![p] = "warmup"]
  /\ UNCHANGED mstart

\* main()'s catch block on a rejected botManager.start(): process.exit(1)
StartFailureIgnored == UNCHANGED exitCode
StartFailureExits == exitCode' = 1

\* a PairTrader.start() that catches the error of initializeClient() and
\* goes on
PairInitFailureSwallowed(p) ==
  /\ IF pstart[p] = "initMM"
     THEN /\ pstart' = [pstart EXCEPT ![p] = "initMT"]
          /\ UNCHANGED <<pairRunning, sleepLeft, mmStartAge, mstart>>
          /\ UNCHANGED botVars
     ELSE PairStartMaker(p)
  /\ UNCHANGED <<mgrRunning, traders, micro, shutdowns, signals, exitCode,
                 clientReady, call>>

\* initializeClient() throws in PairTrader.start() of p: start() rejects,
\* Promise.all rejects, BotManager.start() rejects, main() catches
PairStartFails(p) ==
  /\ pstart' = [pstart EXCEPT ![p] = "failed"]
  /\ mstart' = "rejected"
  /\ StartFailureExits
  /\ UNCHANGED <<pairRunning, sleepLeft, mmStartAge, mgrRunning, traders,
                 micro, shutdowns, signals, clientReady, call>>
  /\ UNCHANGED botVars

\* mmBot.initializeClient() settles in PairTrader.start() of p
PairInitMMReturn(p) ==
  /\ Macrotask
  /\ pstart[p] = "initMM"
  /\ \/ /\ pstart' = [pstart EXCEPT ![p] = "initMT"]
        /\ clientReady' = [clientReady EXCEPT ![MM(p)] = TRUE]
        /\ UNCHANGED call
        /\ UNCHANGED <<pairRunning, sleepLeft, mmStartAge, mgrRunning, traders,
                       mstart, micro, shutdowns, signals, exitCode>>
        /\ UNCHANGED botVars
     \/ PairStartFails(p)

\* mtBot.initializeClient() settles in PairTrader.start() of p
PairInitMTReturn(p) ==
  /\ Macrotask
  /\ pstart[p] = "initMT"
  /\ \/ /\ IF pairRunning[p]
           THEN /\ PairStartReturns(p)
                /\ UNCHANGED <<pairRunning, sleepLeft, mmStartAge>>
                /\ UNCHANGED botVars
           ELSE PairStartMaker(p)
        /\ clientReady' = [clientReady EXCEPT ![MT(p)] = TRUE]
        /\ UNCHANGED call
        /\ UNCHANGED <<mgrRunning, traders, micro, shutdowns, signals, exitCode>>
     \/ PairStartFails(p)

\* the warm-up timer of PairTrader.start() of p fires: mtBot.start()
WarmupDone(p) ==
  /\ Macrotask
  /\ pstart[p] = "warmup"
  /\ sleepLeft[p] = 0
  /\ BotStart(MT(p))
  /\ PairStartReturns(p)
  /\ UNCHANGED <<pairRunning, sleepLeft, mmStartAge, mgrRunning, traders, micro,
                 shutdowns, signals, clientReady, call, exitCode>>

\* TickMs of time pass while a sleep is pending
Tick ==
  /\ Macrotask
  /\ \/ \E p \in Pairs : sleepLeft[p] > 0
     \/ \E i \in DOMAIN shutdowns : shutdowns[i] > 0
  /\ sleepLeft' = [p \in Pairs |-> Max(0, sleepLeft[p] - TickMs)]
  /\ mmStartAge' = [p \in Pairs |->
                      IF pstart[p] = "warmup"
                      THEN Min(WarmupMs, mmStartAge[p] + TickMs) ELSE mmStartAge[p]]
  /\ shutdowns' = [i \in DOMAIN shutdowns |-> Max(0, shutdowns[i] - TickMs)]
  /\ UNCHANGED <<pairRunning, pstart, mgrRunning, traders, mstart, micro, signals, clientReady, call,
                 exitCode>>
  /\ UNCHANGED botVars

\* SIGINT or SIGTERM: botManager.shutdown() calls stop()
Signal ==
  /\ Macrotask
  /\ mstart # "idle"
  /\ signals < MaxSignals
  /\ signals' = signals + 1
  /\ IF ~mgrRunning
     THEN \* stop() returns at once; shutdown() goes on to sleep(1000)
          /\ shutdowns' = Append(shutdowns, GraceMs)
          /\ UNCHANGED <<mgrRunning, micro>>
     ELSE \* isRunning = false, then trader.stop() for each trader; the
          \* continuation after Promise.all runs when all have settled
          /\ mgrRunning' = FALSE
          /\ micro' = TraderCalls(1, traders) \o <<StopDoneTask>>
          /\ UNCHANGED shutdowns
  /\ UNCHANGED <<clientReady, call, pairRunning, pstart, sleepLeft, mmStartAge, traders, mstart,
                 exitCode>>
  /\ UNCHANGED botVars

\* q with task t put ahead of the continuation of BotManager.stop()
BeforeStopDone(q, t) == SubSeq(q, 1, Len(q) - 1) \o <<t, q[Len(q)]>>

\* the next piece of work of the running macrotask
MicroStep ==
  /\ exitCode = -1
  /\ micro # <<>>
  /\ LET t == Head(micro)
         rest == Tail(micro)
     IN \/ \* trader.stop(): returns if the pair is not running, else
           \* isRunning = false and await mtBot.stop()
           /\ t.kind = "pairStop"
           /\ IF ~pairRunning[t.pair]
              THEN /\ micro' = rest
                   /\ UNCHANGED pairRunning
                   /\ UNCHANGED botVars
              ELSE /\ pairRunning' = [pairRunning EXCEPT ![t.pair] = FALSE]
                   /\ BotStop(PairStopFirst(t.pair))
                   /\ micro' = BeforeStopDone(rest, MmStopTask(t.pair))
           /\ UNCHANGED <<traders, shutdowns>>
        \/ \* trader.stop() after its first await: await mmBot.stop()
           /\ t.kind = "mmStop"
           /\ BotStop(PairStopSecond(t.pair))
           /\ micro' = rest
           /\ UNCHANGED <<pairRunning, traders, shutdowns>>
        \/ \* BotManager.stop() after Promise.all: traders.clear(); then
           \* shutdown() goes on to sleep(1000)
           /\ t.kind = "stopDone"
           /\ traders' = {}
           /\ shutdowns' = Append(shutdowns, GraceMs)
           /\ micro' = rest
           /\ UNCHANGED pairRunning
           /\ UNCHANGED botVars
  /\ UNCHANGED <<pstart, sleepLeft, mmStartAge, mgrRunning, mstart, signals, clientReady, call,
                 exitCode>>

\* the sleep of a shutdown() is over: process.exit(0)
ShutdownExit ==
  /\ Macrotask
  /\ \E i \in DOMAIN shutdowns : shutdowns[i] = 0
  /\ exitCode' = 0
  /\ UNCHANGED <<pairRunning, pstart, sleepLeft, mmStartAge, mgrRunning, traders,
                 mstart, micro, shutdowns, signals, clientReady, call>>
  /\ UNCHANGED botVars

\* under the fleet the market data source delivers no ticker: the cycles of
\* the bots skip or fail at fetchTicker
FleetTickers == {NoTicker}
FleetSizeDraws == {0}

NextFleet ==
  \/ MainStart
  \/ MdInitReturn
  \/ \E p \in Pairs : PairInitMMReturn(p)
  \/ \E p \in Pairs : PairInitMTReturn(p)
  \/ \E p \in Pairs : WarmupDone(p)
  \/ Tick
  \/ Signal
  \/ MicroStep
  \/ ShutdownExit
  \/ \E b \in Bots : TimerFire(b)
  \/ \E p \in Pairs : MMFetchReturn(p, FleetTickers, FleetSizeDraws)
  \/ \E p \in Pairs : MTFetchReturn(p, FleetTickers)

SpecFleet == Init /\ [][NextFleet]_vars

(***************************************************************************)
(* Functions of the program applied on their own: call holds the arguments *)
(* of one application and, once it has returned, its result.  The program  *)
(* itself stays as constructed.                                            *)
(***************************************************************************)
progVars == <<botVars, pairRunning, pstart, sleepLeft, mmStartAge, mgrRunning, traders,
              mstart, micro, shutdowns, signals, exitCode, clientReady>>

\* every object as constructed, no bot started
ProgramIdle ==
  /\ isRunning = [b \in Bots |-> FALSE]
  /\ timeoutId = [b \in Bots |-> NullHandle]
  /\ timers = [b \in Bots |-> {}]
  /\ runs = [b \in Bots |-> <<>>]
  /\ activeMakerOrders = [p \in Pairs |-> <<>>]
  /\ recentPrices = [p \in Pairs |-> <<>>]
  /\ lastCall = [b \in Bots |-> "none"]
  /\ cycle = [b \in Bots |-> Unrecorded]
  /\ venue = [p \in Pairs |-> {}]
  /\ pairRunning = [p \in Pairs |-> FALSE]
  /\ pstart = [p \in Pairs |-> "idle"]
  /\ sleepLeft = [p \in Pairs |-> 0]
  /\ mmStartAge = [p \in Pairs |-> 0]
  /\ mgrRunning = FALSE
  /\ traders = {}
  /\ mstart = "idle"
  /\ micro = <<>>
  /\ shutdowns = <<>>
  /\ signals = 0
  /\ exitCode = -1
  /\ clientReady = [b \in Bots |-> FALSE]

\* an application of fn to args that has not returned yet
Pending(fn, args) == [fn |-> fn, args |-> args, result |-> <<>>, done |-> FALSE]

\* the sequences over S of length at most n
SeqsUpTo(S, n) == UNION {[1..k -> S] : k \in 0..n}

(***************************************************************************)
(* manageOrders, steps 1 and 3, applied to a book of resting orders and a  *)
(* ladder of desired orders under either extreme of cancelReplaceRatio.    *)
(* Prices are in units of 10^-5 and sizes in units of 10^-8.               *)
(***************************************************************************)
\* at most this many resting orders
MaxBook == 2
\* at most this many desired orders
MaxLadder == 2

\* resting orders: a bid, an ask, and a bid 1% below
BookOrders ==
  {NewOrder("bid", 100000, 1000, 1), NewOrder("ask", 100100, 1000, 1),
   NewOrder("bid", 99000, 1000, 2)}
\* desired orders: the resting bid itself, a bid within both deviations of
\* it, the resting ask itself, and a bid 1% above
LadderOrders ==
  {NewOrder("bid", 100000, 1000, 1), NewOrder("bid", 100050, 1050, 1),
   NewOrder("ask", 100100, 1000, 1), NewOrder("bid", 101000, 1000, 1)}

\* activeMakerOrders in insertion order: the order at position i has id i
Books ==
  {[i \in 1..Len(q) |-> [q[i] EXCEPT !.id = i, !.status = "new"]] :
     q \in SeqsUpTo(BookOrders, MaxBook)}
Ladders == SeqsUpTo(LadderOrders, MaxLadder)
\* cancelReplaceRatio in percent: 0 and 1
Ratios == {0, 100}

ClassifyArgs ==
  UNION {[ratio : Ratios, resting : {R}, newOrders : Ladders,
          rnd : [1..Len(R) -> RandPct]] : R \in Books}

InitClassify ==
  /\ ProgramIdle
  /\ call \in {Pending("manageOrders", a) : a \in ClassifyArgs}

\* steps 1 and 3 of manageOrders return
ApplyClassify ==
  /\ call.fn = "manageOrders" /\ ~call.done
  /\ \E c \in {ClassifyWith(call.args.ratio, call.args.resting,
                              call.args.newOrders, call.args.rnd)} :
       call' = [call EXCEPT
                  !.result = [matched |-> c.matched, keep |-> c.keep,
                              cancel |-> c.cancel,
                              toPlace |-> OrdersToPlace(call.args.newOrders, c.matched)],
                  !.done = TRUE]
  /\ UNCHANGED progVars

NextClassify == ApplyClassify
SpecClassify == InitClassify /\ [][NextClassify]_vars

(***************************************************************************)
(* Properties of the run loop, checked under SpecBot.                      *)
(***************************************************************************)
\* the ids for which a client.cancelOrders call of the maker of p is pending
CancelRequested(p) ==
  UNION {r.toCancel : r \in {q \in Range(runs[MM(p)]) : q.pc = "cancel"}}

\* the state a stop() call leaves bot b in
PostStop(b) ==
  /\ ~isRunning[b] /\ timeoutId[b] = NullHandle /\ timers[b] = {}
  /\ b[2] = "mm" => activeMakerOrders[b[1]] = <<>>

\* C1: at most one run cycle of a bot is in progress at any time, also when
\* stop() and then start() are called while a cycle is in flight.
C1_AtMostOneCycleInFlight == \A b \in Bots : Len(runs[b]) <= 1

\* C2: stop() called while a timer is pending cancels it and clears the
\* running flag; while the bot is stopped no timer is pending and no cycle
\* begins, and only start() makes the bot running again.
C2_NoCycleAfterStop ==
  [][\A b \in Bots :
       /\ BotStop(b) => ~isRunning'[b] /\ timers'[b] = {}
       /\ ~isRunning[b] => Len(runs'[b]) <= Len(runs[b])
       /\ ~isRunning[b] /\ ~isRunning'[b] => timers'[b] = {}
       /\ ~isRunning[b] /\ isRunning'[b] => BotStart(b)]_vars

\* a stop() found a pending timer and cancelled it, and the bot is stopped
C2_Witness ==
  \E b \in Bots : lastCall[b] = "stop-cleared" /\ ~isRunning[b] /\ timers[b] = {}

\* C3: when the maker is stopped, a cancel request covering every order of
\* its map is issued to the client before stop() completes, so that no order
\* the map held stays live on the venue without a cancel request.
C3_StopCancelsRestingOrders ==
  [][\A p \in Pairs :
       BotStop(MM(p)) =>
         \A o \in Range(activeMakerOrders[p]) :
           o.id \in venue'[p] => o.id \in CancelRequested(p)']_vars

\* C4: after stop() of the maker its map is empty and stays empty until
\* start() is called, whatever the bot was doing when stop() was called.
C4_MapEmptyWhileStopped ==
  \A p \in Pairs : ~isRunning[MM(p)] => activeMakerOrders[p] = <<>>

\* C5: stop() leaves the cycles in flight as they are, and a cycle that
\* completes while the bot is stopped schedules nothing: no timer is pending
\* and timeoutId is not set.
C5_InFlightCycleCompletesUnscheduled ==
  [][\A b \in Bots :
       /\ BotStop(b) => runs'[b] = runs[b]
       /\ ~isRunning[b] /\ Len(runs'[b]) < Len(runs[b]) =>
            ~isRunning'[b] /\ timers'[b] = {} /\ timeoutId'[b] = timeoutId[b]]_vars

\* stop() was called with no timer pending and a cycle in flight; every cycle
\* has completed since, and the bot is stopped with no timer
C5_Witness ==
  \E b \in Bots :
    lastCall[b] = "stop-inflight" /\ runs[b] = <<>> /\ ~isRunning[b] /\ timers[b] = {}

\* C6: a bot never has more than one pending timer, and a cycle of a running
\* bot that completes, by whatever path, leaves exactly one: the one held in
\* timeoutId.
C6_OnePendingTimer ==
  [][\A b \in Bots :
       /\ Cardinality(timers'[b]) <= 1
       /\ isRunning[b] /\ Len(runs'[b]) < Len(runs[b]) =>
            timers'[b] = {timeoutId'[b]}]_vars

\* the maker is running, its cycles have completed (one placed an order) and
\* exactly one timer is pending
C6_Witness ==
  \E p \in Pairs :
    /\ isRunning[MM(p)] /\ runs[MM(p)] = <<>>
    /\ activeMakerOrders[p] # <<>>
    /\ Cardinality(timers[MM(p)]) = 1

\* C7: a stop() that follows a stop() leaves the bot as a stop() leaves it
\* (not running, no timer, empty map), changes nothing when the bot is still
\* in that state, and sends no cancel request.
C7_StopTwiceIdempotent ==
  [][\A b \in Bots :
       BotStop(b) /\ lastCall[b] \in StopKinds =>
         /\ PostStop(b)'
         /\ CancelRequested(b[1])' = CancelRequested(b[1])
         /\ venue' = venue
         /\ PostStop(b) =>
              UNCHANGED <<isRunning, timeoutId, timers, runs, activeMakerOrders,
                          recentPrices>>]_vars

\* stop() was called twice in a row on a maker that had been started
C7_Witness ==
  \E p \in Pairs : lastCall[MM(p)] = "stop-again" /\ venue[p] # {} /\ PostStop(MM(p))

(***************************************************************************)
(* Properties of pair and fleet start and stop, checked under SpecFleet.   *)
(***************************************************************************)
\* C8: on a pair start the maker is started first; the taker is started only
\* when WarmupMs have passed since the maker was started, and never before
\* the maker.
C8_TakerStartsAfterWarmup ==
  [][\A p \in Pairs :
       /\ ~isRunning[MT(p)] /\ isRunning'[MT(p)] =>
            lastCall[MM(p)] # "none" /\ mmStartAge[p] >= WarmupMs
       /\ ~isRunning[MM(p)] /\ isRunning'[MM(p)] => lastCall[MT(p)] = "none"]_vars

\* a pair start has run to its end: both bots run, the taker started
\* WarmupMs after the maker
C8_Witness ==
  \E p \in Pairs :
    /\ pstart[p] = "done" /\ mmStartAge[p] = WarmupMs
    /\ isRunning[MM(p)] /\ isRunning[MT(p)]

\* C9: a pair stop that acts stops the taker and leaves the maker for later;
\* when the maker's stop() begins, the taker's stop() has completed.  This
\* holds for every pair when the fleet stops them together.
C9_TakerStoppedBeforeMaker ==
  [][\A p \in Pairs :
       /\ pairRunning[p] /\ ~pairRunning'[p] =>
            /\ lastCall'[MT(p)] \in StopKinds /\ ~isRunning'[MT(p)]
            /\ lastCall'[MM(p)] = lastCall[MM(p)]
       /\ lastCall[MM(p)] \notin StopKinds /\ lastCall'[MM(p)] \in StopKinds =>
            /\ lastCall[MT(p)] \in StopKinds /\ ~isRunning[MT(p)]
            /\ ~pairRunning[p]]_vars

\* the fleet stopped all pairs together while their bots were running, and
\* both bots of every pair have been stopped
C9_Witness ==
  \A p \in Pairs :
    /\ lastCall[MT(p)] \in {"stop-cleared", "stop-inflight"}
    /\ lastCall[MM(p)] \in {"stop-cleared", "stop-inflight"}

\* C10: when the start of a pair fails, the fleet start is not aborted: the
\* process lives on and the fleet continues with the other pairs.
C10_StartFailureKeepsFleetRunning ==
  \A p \in Pairs : pstart[p] = "failed" => exitCode = -1

\* C10, as the code has it: when the start of a pair fails nothing is rolled
\* back (no bot is stopped), but the fleet start is aborted: the process
\* exits with code 1 in the same macrotask, and nothing runs after the exit.
C10_StartFailureExitsProcess ==
  [][/\ exitCode = -1
     /\ \A p \in Pairs :
          pstart[p] # "failed" /\ pstart'[p] = "failed" =>
            /\ exitCode' = 1
            /\ UNCHANGED <<isRunning, timeoutId, timers, runs, lastCall,
                           pairRunning, mgrRunning>>
     /\ (\E p \in Pairs : pstart'[p] = "failed") => exitCode' = 1]_vars

\* the start of a pair failed while the maker of another pair was running:
\* the process has exited with code 1, the maker was not stopped
C10_Witness ==
  \E p \in Pairs, q \in Pairs :
    /\ p # q /\ pstart[p] = "failed" /\ exitCode = 1
    /\ isRunning[MM(q)] /\ lastCall[MM(q)] = "start"

\* the step in which BotManager.start() settles: it returns or rejects
FleetStartSettles == mstart = "starting" /\ mstart' # "starting"
\* the step in which BotManager.stop() goes on after Promise.all
FleetStopSettles ==
  /\ micro # <<>> /\ Head(micro).kind = "stopDone"
  /\ micro' = Tail(micro)

\* C11: fleet start settles only when the start of every pair has finished
\* (returned or failed), and fleet stop goes on after Promise.all only when
\* the stop of every pair has finished: none is left in the queue and both
\* bots of every pair that was stopped have been stopped.
C11_BatchWaitsForEveryPair ==
  [][/\ FleetStartSettles => \A p \in Pairs : pstart'[p] \in {"done", "failed"}
     /\ FleetStopSettles =>
          /\ Tail(micro) = <<>>
          /\ \A p \in Pairs :
               lastCall[MT(p)] \in StopKinds <=> lastCall[MM(p)] \in StopKinds]_vars

\* C12: a bot runs, holds a timer or has a cycle in flight only when the
\* clients of both bots of its pair have initialized and are authenticated;
\* a pair whose start failed has not both clients ready, and neither of its
\* bots was ever started.
C12_NoCycleBeforeAuthentication ==
  \A p \in Pairs :
    /\ (\E b \in {MM(p), MT(p)} : isRunning[b] \/ timers[b] # {} \/ runs[b] # <<>>)
         => clientReady[MM(p)] /\ clientReady[MT(p)]
    /\ pstart[p] = "failed" =>
         /\ ~(clientReady[MM(p)] /\ clientReady[MT(p)])
         /\ \A b \in {MM(p), MT(p)} : lastCall[b] = "none" /\ ~isRunning[b]

\* the taker's client of a pair failed after the maker's client was ready and
\* neither bot was started, while a cycle of the other pair's maker, whose
\* clients are both ready, is in flight
C12_Witness ==
  \E p \in Pairs, q \in Pairs :
    /\ p # q /\ pstart[p] = "failed"
    /\ clientReady[MM(p)] /\ ~clientReady[MT(p)] /\ lastCall[MM(p)] = "none"
    /\ runs[MM(q)] # <<>> /\ clientReady[MM(q)] /\ clientReady[MT(q)]

\* C13: the step in which marketDataProvider.initialize() throws during the
\* fleet's startup leaves every pair unstarted and ends the process with
\* exit code 1.
C13_MdInitFailureExitsProcess ==
  [][mstart = "mdInit" /\ mstart' = "initFailed" =>
       /\ \A p \in Pairs : pstart'[p] = "idle" /\ ~pairRunning'[p]
       /\ exitCode' = 1]_vars

\* C14: when the process has exited with code 0 after a termination signal,
\* no bot is running and none holds a pending timer, in whatever phase of
\* the startup or of the operation the signal arrived.
C14_NothingRunsAtGracefulExit ==
  exitCode = 0 => \A b \in Bots : ~isRunning[b] /\ timers[b] = {}

(***************************************************************************)
(* The cycles of a bot that is left running.                               *)
(***************************************************************************)
\* the step in which fetchTicker settles for a run() of bot b
FetchSettles(b) ==
  \E i \in DOMAIN runs[b] :
    /\ runs[b][i].pc = "fetch"
    /\ \/ Len(runs'[b]) < Len(runs[b])
       \/ i \in DOMAIN runs'[b] /\ runs'[b][i].pc # "fetch"

\* the recoverable-skip conditions of a cycle of bot b that was delivered t:
\* no ticker or a missing field, or, for the maker, the target bid at or
\* above the target ask after the widening step
SkipCondition(b, t) ==
  \/ ~t.ok
  \/ b[2] = "mm" /\ Crossed(t) /\ WideBidNum(t) >= WideAskNum(t)

\* C15: a cycle that is delivered no ticker, a ticker with a missing field
\* or, for the maker, a ticker whose targets are still crossed after the
\* widening step returns without a cancelOrders or submitOrder call, leaves
\* the resting map and the venue as they are, and leaves a running bot with
\* exactly one pending timer, the one held in timeoutId.
C15_SkipCycleOnlyReschedules ==
  [][\A b \in Bots :
       FetchSettles(b) /\ cycle'[b].phase # "error"
                       /\ SkipCondition(b, cycle'[b].ticker) =>
         /\ cycle'[b].phase = "skip"
         /\ runs'[b] = <<>>
         /\ activeMakerOrders' = activeMakerOrders /\ venue' = venue
         /\ isRunning[b] => isRunning'[b] /\ timers'[b] = {timeoutId'[b]}]_vars

\* a maker with resting orders skipped a cycle on a ticker whose targets
\* stay crossed, and waits for its next cycle
C15_Witness ==
  \E p \in Pairs :
    /\ cycle[MM(p)].phase = "skip" /\ cycle[MM(p)].ticker.ok
    /\ activeMakerOrders[p] # <<>>
    /\ runs[MM(p)] = <<>> /\ timers[MM(p)] = {timeoutId[MM(p)]}

\* the ids of the orders in the sequence orders
OrderIdsOf(orders) == {o.id : o \in Range(orders)}

\* C16: when a cycle of the maker has returned, its batch cancel (if any)
\* succeeded and no placement was refused, the resting map holds one entry
\* per key, and its keys are exactly the ids classified keep and the ids
\* of the orders placed; every order to place was placed, as the desired
\* order with its venue id and status new.
C16_MapAfterSuccessfulCycle ==
  \A p \in Pairs :
    LET log == cycle[MM(p)] IN
    log.phase = "done" /\ log.cancelled # "failed" /\ log.refused = <<>> =>
      /\ OrderIdsOf(activeMakerOrders[p]) = log.keep \cup OrderIdsOf(log.placed)
      /\ Cardinality(OrderIdsOf(activeMakerOrders[p])) = Len(activeMakerOrders[p])
      /\ log.keep \cap OrderIdsOf(log.placed) = {}
      /\ Len(log.placed) = Len(log.toPlace)
      /\ \A k \in DOMAIN log.placed :
           /\ log.placed[k].id # 0
           /\ log.placed[k] =
                [log.toPlace[k] EXCEPT !.id = log.placed[k].id, !.status = "new"]
           /\ log.placed[k] \in Range(activeMakerOrders[p])

\* a cycle kept a resting order, cancelled another and placed its
\* replacement, every call succeeding
C16_Witness ==
  \E p \in Pairs :
    LET log == cycle[MM(p)] IN
    /\ log.phase = "done" /\ log.cancelled = "ok" /\ log.refused = <<>>
    /\ log.keep # {} /\ log.cancel # {} /\ log.placed # <<>>

\* C17: when a cycle of the maker has returned, whatever calls succeeded
\* or failed, every key of the resting map is an id classified keep in that
\* cycle or the id of an order placed in that cycle.
C17_KeysAreKeptOrPlaced ==
  \A p \in Pairs :
    LET log == cycle[MM(p)] IN
    log.phase = "done" =>
      OrderIdsOf(activeMakerOrders[p]) \subseteq log.keep \cup OrderIdsOf(log.placed)

\* C17 as amended: when a cycle of the maker has returned, every key of the
\* resting map is an id classified keep, the id of an order placed in that
\* cycle, or an id classified cancel in a cycle whose batch cancel failed;
\* each of them is live on the venue.
C17_KeysAreLiveOnVenue ==
  \A p \in Pairs :
    LET log == cycle[MM(p)] IN
    log.phase = "done" =>
      /\ OrderIdsOf(activeMakerOrders[p]) \subseteq
           log.keep \cup OrderIdsOf(log.placed)
                    \cup (IF log.cancelled = "failed" THEN log.cancel ELSE {})
      /\ OrderIdsOf(activeMakerOrders[p]) \subseteq venue[p]

\* a cycle whose batch cancel failed and whose placements were partly
\* refused has returned: the map holds kept, uncancelled and placed orders
C17_Witness ==
  \E p \in Pairs :
    LET log == cycle[MM(p)] IN
    /\ log.phase = "done" /\ log.cancelled = "failed"
    /\ log.placed # <<>> /\ log.refused # <<>>
    /\ log.cancel \subseteq OrderIdsOf(activeMakerOrders[p])

\* the step in which run() of the maker of p hands a ladder to manageOrders
\* and step 1 classifies the resting orders
Classifies(p) ==
  FetchSettles(MM(p)) /\ cycle'[MM(p)].phase \in {"cancel", "place", "done"}

\* D repeats Dprev: the orders of D pair off with those of Dprev, each with
\* one of the same side whose price and size it is within the deviations of
Repeats(D, Dprev) ==
  /\ Len(D) = Len(Dprev)
  /\ \E f \in [DOMAIN D -> DOMAIN Dprev] :
       /\ \A j, k \in DOMAIN D : f[j] = f[k] => j = k
       /\ \A k \in DOMAIN D :
            D[k].side = Dprev[f[k]].side /\ WithinDeviation(Dprev[f[k]], D[k])

\* C18: with cancelReplaceRatio = 0, a cycle whose desired orders repeat
\* those of the cycle before, all of whose placements succeeded, classifies
\* no resting order cancel and has no order to place.
C18_RepeatedLadderChangesNothing ==
  [][\A p \in Pairs :
       LET prev == cycle[MM(p)]
           this == cycle'[MM(p)]
       IN /\ Classifies(p)
          /\ prev.phase = "done" /\ prev.desired # <<>> /\ prev.refused = <<>>
          /\ Repeats(this.desired, prev.desired)
          /\ CancelReplaceRatioPct = 0
          => this.cancel = {} /\ this.toPlace = <<>>]_vars

\* C19: the step in which the batch cancelOrders call of a cycle fails
\* leaves the resting map as it is and the cycle goes on to its placements
\* (or returns and reschedules when there are none); as long as that cycle
\* is the last one recorded, every order it classified cancel stays in the
\* map, and the next classification classifies each of them again.
C19_FailedCancelKeepsEntries ==
  [][\A p \in Pairs :
       LET prev == cycle[MM(p)]
           this == cycle'[MM(p)]
       IN /\ prev.phase = "cancel" /\ this.cancelled = "failed" =>
               /\ activeMakerOrders'[p] = activeMakerOrders[p]
               /\ IF prev.toPlace # <<>>
                  THEN \E i \in DOMAIN runs'[MM(p)] :
                         runs'[MM(p)][i] = Run("submit", {}, prev.toPlace)
                  ELSE /\ this.phase = "done" /\ runs'[MM(p)] = <<>>
                       /\ timers'[MM(p)] = {timeoutId'[MM(p)]}
          /\ prev.cancelled = "failed" /\ this.cancelled = "failed" =>
               prev.cancel \subseteq OrderIdsOf(activeMakerOrders'[p])
          /\ prev.cancelled = "failed" /\ Classifies(p) =>
               prev.cancel \subseteq this.keep \cup this.cancel]_vars

\* the batch cancel of a cycle failed and the cycle went on to submit an
\* order; the orders classified cancel are still in the map
C19_Witness ==
  \E p \in Pairs :
    LET log == cycle[MM(p)] IN
    /\ log.cancelled = "failed" /\ log.phase = "place"
    /\ \E i \in DOMAIN runs[MM(p)] : runs[MM(p)][i].pc = "submit"
    /\ log.cancel # {} /\ log.cancel \subseteq OrderIdsOf(activeMakerOrders[p])

\* C20: the step in which a submitOrder call of a cycle fails leaves the
\* resting map and the venue as they are; the cycle goes on to submit the
\* orders after the one refused, or returns and reschedules when none is
\* left; a cycle that has returned has submitted each order to place once.
C20_RefusedOrderIsSkipped ==
  [][\A p \in Pairs :
       LET prev == cycle[MM(p)]
           this == cycle'[MM(p)]
       IN /\ prev.phase = "place" /\ Len(this.refused) = Len(prev.refused) + 1 =>
               LET k == Len(prev.placed) + Len(prev.refused) + 1
                   rest == SubSeq(prev.toPlace, k + 1, Len(prev.toPlace))
               IN /\ this.refused = Append(prev.refused, prev.toPlace[k])
                  /\ activeMakerOrders'[p] = activeMakerOrders[p]
                  /\ venue'[p] = venue[p]
                  /\ IF rest # <<>>
                     THEN \E i \in DOMAIN runs'[MM(p)] :
                            runs'[MM(p)][i] = Run("submit", {}, rest)
                     ELSE /\ this.phase = "done" /\ runs'[MM(p)] = <<>>
                          /\ timers'[MM(p)] = {timeoutId'[MM(p)]}
          /\ this.phase = "done" =>
               Len(this.placed) + Len(this.refused) = Len(this.toPlace)]_vars

\* the first order a cycle submitted was refused, the next one was placed
\* and the cycle has returned and rescheduled
C20_Witness ==
  \E p \in Pairs :
    LET log == cycle[MM(p)] IN
    /\ log.phase = "done" /\ Len(log.toPlace) = 2
    /\ log.refused = <<log.toPlace[1]>> /\ Len(log.placed) = 1
    /\ OrderIdsOf(log.placed) \subseteq OrderIdsOf(activeMakerOrders[p])
    /\ runs[MM(p)] = <<>> /\ timers[MM(p)] = {timeoutId[MM(p)]}

(***************************************************************************)
(* findMatchingOrder applied to an existing order and a list of candidates *)
(* with the deviations manageOrders passes.                                *)
(***************************************************************************)
\* at most this many candidates
MaxCands == 3

\* an order of the given side and kind; a market order carries no price
OrderOf(side, type, price, size) ==
  [id |-> 0, side |-> side, type |-> type, price |-> price, size |-> size,
   level |-> 0, status |-> "none"]

\* existing orders: a limit bid, a limit ask and a market bid without price
MatchExisting ==
  {OrderOf("bid", "limit", 2000, 10), OrderOf("ask", "limit", 2000, 10),
   OrderOf("bid", "market", 0, 10)}
\* candidates around the limit bid: the same order; 0.05% above and below
\* (equal deviations); at and just beyond the price deviation of 0.1%; at
\* and just beyond the size deviation of 10%; the other side; the other kind
MatchCandidates ==
  {OrderOf("bid", "limit", 2000, 10),
   OrderOf("bid", "limit", 2001, 10), OrderOf("bid", "limit", 1999, 10),
   OrderOf("bid", "limit", 2002, 10), OrderOf("bid", "limit", 2003, 10),
   OrderOf("bid", "limit", 2000, 11), OrderOf("bid", "limit", 2000, 12),
   OrderOf("ask", "limit", 2000, 10), OrderOf("bid", "market", 0, 10)}

MatchArgs == [existing : MatchExisting, cands : SeqsUpTo(MatchCandidates, MaxCands)]

InitMatch ==
  /\ ProgramIdle
  /\ call \in {Pending("findMatchingOrder", a) : a \in MatchArgs}

\* findMatchingOrder returns: the index of the candidate, 0 for null
ApplyMatch ==
  /\ call.fn = "findMatchingOrder" /\ ~call.done
  /\ call' = [call EXCEPT
                !.result = findMatchingOrder(call.args.existing, call.args.cands),
                !.done = TRUE]
  /\ UNCHANGED progVars

NextMatch == ApplyMatch
SpecMatch == InitMatch /\ [][NextMatch]_vars

(***************************************************************************)
(* chooseStrategy applied to a draw under a configuration of the strategy  *)
(* probabilities, in percent.                                              *)
(***************************************************************************)
\* the probabilities a configuration gives a strategy
ProbChoices == {0, 10, 30, 50}
\* Math.random() * 100
ChooseDraws == {0, 9, 10, 29, 30, 49, 50, 59, 60, 79, 80, 89, 90, 99}

StrategyArgs ==
  [probs : [random : ProbChoices, momentum : ProbChoices,
            meanReversion : ProbChoices, passiveLimit : ProbChoices],
   r : ChooseDraws]

InitStrategy ==
  /\ ProgramIdle
  /\ call \in {Pending("chooseStrategy", a) : a \in StrategyArgs}

\* chooseStrategy returns
ApplyStrategy ==
  /\ call.fn = "chooseStrategy" /\ ~call.done
  /\ call' = [call EXCEPT !.result = chooseStrategyWith(call.args.probs, call.args.r),
                          !.done = TRUE]
  /\ UNCHANGED progVars

NextStrategy == ApplyStrategy
SpecStrategy == InitStrategy /\ [][NextStrategy]_vars

(***************************************************************************)
(* The body of the taker's run() after a ticker has arrived, applied to a  *)
(* price window, a ticker, a strategy and the draws of the order           *)
(* synthesis.  Tickers are in units of 10^-5 / TakerGrid, so that a ticker  *)
(* need not be a multiple of the rounding step.                            *)
(***************************************************************************)
\* the steps of 10^-6 in a rounding step of 10^-5
TakerGrid == 10

\* the last prices of earlier cycles
TakerPrices == {1000, 1010}
\* tickers: the last price at the bid and at the ask of a spread of 1%;
\* bid = ask between two rounding steps, nearer the lower and nearer the
\* upper one; a crossed ticker; prices below half a rounding step; a ticker
\* of zeros
TakerTickers ==
  {Ticker(1000, 1010, 1000), Ticker(1000, 1010, 1010), Ticker(1004, 1004, 1004),
   Ticker(1006, 1006, 1006), Ticker(1010, 1000, 1004), Ticker(4, 4, 4),
   Ticker(0, 0, 0)}
\* the draws of the order synthesis; a size variance of -100% needs a
\* sizeRandomizationFactor of 1
TakerCycleDraws ==
  [market : BOOLEAN, sizeVar : TakerSizeVarDraws \cup {-SizeVarDen}, coin : Sides,
   u : UDraws]

TakerArgs ==
  [before : SeqsUpTo(TakerPrices, MomentumLookbackTicks), ticker : TakerTickers,
   strategy : Range(StrategyOrder), d : TakerCycleDraws]

\* run() from updateRecentPrices to the decision to submit
TakerCycle(before, t, strategy, d) ==
  LET recent == updateRecentPrices(before, t.last)
      order == generateOrderOnGrid(TakerGrid, strategy, t, recent, d)
  IN [recent |-> recent, order |-> order,
      pc |-> IF order.none THEN "finish" ELSE "submit"]

InitTaker ==
  /\ ProgramIdle
  /\ call \in {Pending("run", a) : a \in TakerArgs}

\* the cycle has generated its order, or none
ApplyTaker ==
  /\ call.fn = "run" /\ ~call.done
  /\ call' = [call EXCEPT
                !.result = TakerCycle(call.args.before, call.args.ticker,
                                      call.args.strategy, call.args.d),
                !.done = TRUE]
  /\ UNCHANGED progVars

NextTaker == ApplyTaker
SpecTaker == InitTaker /\ [][NextTaker]_vars

\* an application of manageOrders' classification that has returned
Classified == call.fn = "manageOrders" /\ call.done
\* the ids of a sequence of orders, in order
IdsOf(orders) == [i \in 1..Len(orders) |-> orders[i].id]

C22_RatioZeroReplacesAll ==
  Classified /\ call.args.ratio = CancelReplaceRatioPct
    => /\ call.result.cancel = IdsOf(call.args.resting)
       /\ call.result.toPlace = call.args.newOrders

\* candidate n has the side and kind of e and both deviations of
\* compareOrders(e, n) are within the maxima
Eligible(e, n) ==
  /\ n.side = e.side /\ n.type = e.type
  /\ PriceDeviation(e, n).num * MaxPriceDevDen <= MaxPriceDevNum * PriceDeviation(e, n).den
  /\ SizeDeviation(e, n).num * MaxSizeDevDen <= MaxSizeDevNum * SizeDeviation(e, n).den
\* priceDeviation + sizeDeviation of compareOrders(e, n) is at most that of
\* compareOrders(e, m): the sums compared after cross-multiplication
SumAtMost(e, n, m) ==
  LET pn == PriceDeviation(e, n)
      sn == SizeDeviation(e, n)
      pm == PriceDeviation(e, m)
      sm == SizeDeviation(e, m)
  IN (pn.num * sn.den + sn.num * pn.den) * (pm.den * sm.den)
       <= (pm.num * sm.den + sm.num * pm.den) * (pn.den * sn.den)
Matched == call.fn = "findMatchingOrder" /\ call.done

\* C23: findMatchingOrder returns none exactly when no candidate is
\* eligible (same side and kind, both deviations within the maxima);
\* otherwise it returns an eligible candidate with the smallest sum of the
\* two deviations, and the earliest of those with that sum.
C23_BestEligibleEarliestOnTies ==
  Matched =>
    LET e == call.args.existing
        cands == call.args.cands
        r == call.result
        ok == {i \in DOMAIN cands : Eligible(e, cands[i])}
    IN /\ (r = 0) <=> (ok = {})
       /\ r # 0 => /\ r \in ok
                   /\ \A j \in ok : SumAtMost(e, cands[r], cands[j])
                   /\ \A j \in ok : SumAtMost(e, cands[j], cands[r]) => r <= j

\* two eligible candidates with equal sums follow a worse eligible one, and
\* the first of the two is returned
C23_Witness ==
  /\ Matched /\ call.result = 2 /\ Len(call.args.cands) = 3
  /\ \A i \in 1..3 : Eligible(call.args.existing, call.args.cands[i])
  /\ SumAtMost(call.args.existing, call.args.cands[3], call.args.cands[2])
  /\ ~SumAtMost(call.args.existing, call.args.cands[1], call.args.cands[2])

\* C24: in every ladder the maker generates, at each level with both a bid
\* and an ask the bid price, rounded to 5 decimals, is strictly below the ask
\* price; and no order is generated when the targets are still crossed after
\* the widening.
C24_LadderBidBelowAsk ==
  \A p \in Pairs :
    LET D == cycle[MM(p)].desired
    IN /\ \A i, j \in DOMAIN D :
            D[i].side = "bid" /\ D[j].side = "ask" /\ D[i].level = D[j].level
              => D[i].price < D[j].price
       /\ cycle[MM(p)].ticker.ok /\ StillCrossed(cycle[MM(p)].ticker) => D = <<>>

Chosen == call.fn = "chooseStrategy" /\ call.done

\* C25: chooseStrategy returns random for a draw below pR, else momentum
\* below pR + pM, else meanReversion below pR + pM + pV, else passiveLimit
\* below pR + pM + pV + pP, and random for a draw at or beyond the sum of
\* all four.
C25_CumulativeBands ==
  Chosen =>
    LET pr == call.args.probs
        r == call.args.r
        pR == pr.random
        pM == pr.momentum
        pV == pr.meanReversion
        pP == pr.passiveLimit
    IN /\ r < pR => call.result = "random"
       /\ pR <= r /\ r < pR + pM => call.result = "momentum"
       /\ pR + pM <= r /\ r < pR + pM + pV => call.result = "meanReversion"
       /\ pR + pM + pV <= r /\ r < pR + pM + pV + pP => call.result = "passiveLimit"
       /\ pR + pM + pV + pP <= r => call.result = "random"

\* the probabilities sum to less than 1 and the draw is beyond the sum: the
\* fallback has returned random although the draw is not below pR
C25_Witness ==
  /\ Chosen /\ call.result = "random"
  /\ call.args.probs.random > 0 /\ call.args.probs.passiveLimit > 0
  /\ call.args.r >= call.args.probs.random + call.args.probs.momentum
                      + call.args.probs.meanReversion + call.args.probs.passiveLimit

\* a taker cycle has generated its order, or none
Generated == call.fn = "run" /\ call.done
\* the cycle emitted a limit order
EmittedLimit == Generated /\ ~call.result.order.none /\ call.result.order.type = "limit"

\* C26: for every strategy, every draw and every ticker with positive bid
\* and ask, an emitted limit buy is priced at or below the best ask and an
\* emitted limit sell at or above the best bid, after the final rounding.
C26_LimitNeverCrossesTouch ==
  EmittedLimit /\ call.args.ticker.bid > 0 /\ call.args.ticker.ask > 0
    => /\ call.result.order.side = "bid" => call.result.order.price <= call.args.ticker.ask
       /\ call.result.order.side = "ask" => call.result.order.price >= call.args.ticker.bid

\* a limit buy was rounded to above an ask that lies between two rounding
\* steps, and was emitted at the ask
C26_Witness ==
  /\ EmittedLimit /\ call.result.order.side = "bid"
  /\ call.args.ticker.ask % TakerGrid # 0
  /\ call.result.order.price = call.args.ticker.ask

\* C27: every order the taker emits is a market order without a price or a
\* limit order with a price above 0, and its size is above 0: a limit order
\* whose price comes out at 0 or below is emitted as a market order, the
\* cycle neither fails nor is skipped for it, and no order is emitted for a
\* size of 0 or less.
C27_MarketWithoutPriceOrLimitAboveZero ==
  Generated =>
    LET o == call.result.order
        t == call.args.ticker
        size == roundToDecimalPlaces(BaseOrderSize * (SizeVarDen + call.args.d.sizeVar),
                                     SizeVarDen)
    IN /\ ~o.none => \/ o.type = "market" /\ o.price = 0
                     \/ o.type = "limit" /\ o.price > 0
       /\ ~o.none => o.size > 0
       /\ size <= 0 => o.none
       /\ size > 0 /\ t.bid > 0 /\ t.ask > 0 /\ t.last > 0
            /\ call.args.strategy \in {"random", "passiveLimit"} => ~o.none

\* a limit order was asked for on a ticker below half a rounding step: its
\* price rounds to 0 and a market order without price was emitted
C27_Witness ==
  /\ Generated /\ ~call.result.order.none
  /\ call.args.strategy = "passiveLimit"
  /\ call.result.order.type = "market" /\ call.result.order.price = 0

\* the taker's cycle has a ticker and a size it can trade on
Tradable ==
  /\ Generated
  /\ call.args.ticker.bid > 0 /\ call.args.ticker.ask > 0 /\ call.args.ticker.last > 0
  /\ call.args.d.sizeVar > -SizeVarDen

\* C28: under meanReversion the taker emits a sell when (latest - mean) /
\* mean of the window is above meanReversionThreshold, a buy when it is
\* below -meanReversionThreshold, and otherwise (within the band, or fewer
\* than two prices in the window) no order and no submitOrder call; under
\* momentum a flat trend falls back to the coin flip and an order is emitted.
C28_MeanReversionBandMomentumCoin ==
  Tradable =>
    LET w == call.result.recent
        n == Len(w)
        sum == SeqSum(w)
        latest == call.args.ticker.last
        o == call.result.order
        \* (latest - sum / n) / (sum / n) against the threshold
        above == (latest * n - sum) * MeanRevThresholdDen > MeanRevThresholdNum * sum
        below == (latest * n - sum) * MeanRevThresholdDen < -(MeanRevThresholdNum * sum)
    IN /\ call.args.strategy = "meanReversion" =>
            /\ n >= 2 /\ above => ~o.none /\ o.side = "ask"
            /\ n >= 2 /\ below => ~o.none /\ o.side = "bid"
            /\ n < 2 \/ (~above /\ ~below) => o.none /\ call.result.pc = "finish"
       /\ call.args.strategy = "momentum" /\ (n < 2 \/ w[n] = w[1]) =>
            ~o.none /\ o.side = call.args.d.coin /\ call.result.pc = "submit"

\* a meanReversion cycle with three prices in the window, the latest within
\* the band but not at the mean, emitted nothing
C28_Witness ==
  /\ Tradable /\ call.args.strategy = "meanReversion"
  /\ Len(call.result.recent) = 3
  /\ call.args.ticker.last * 3 # SeqSum(call.result.recent)
  /\ call.result.order.none /\ call.result.pc = "finish"

\* the last n elements of s, all of s when it is shorter
LastOf(s, n) == SubSeq(s, Max(1, Len(s) - n + 1), Len(s))

\* C29: the taker's price history holds at most momentumLookbackTicks
\* prices: the last prices of the most recent cycles that had a valid
\* ticker, in arrival order, the oldest dropped first; a cycle skipped for
\* missing ticker data, and every other step, leaves the history as it is.
C29_WindowOfLatestPrices ==
  [][\A p \in Pairs :
       /\ Len(recentPrices'[p]) <= MomentumLookbackTicks
       /\ IF FetchSettles(MT(p)) /\ cycle'[MT(p)].phase \in {"done", "place"}
          THEN recentPrices'[p] =
                 LastOf(Append(recentPrices[p], cycle'[MT(p)].ticker.last),
                        MomentumLookbackTicks)
          ELSE recentPrices'[p] = recentPrices[p]]_vars

\* the history is full, ends with the last price of the latest ticker, and
\* the cycle after it was skipped for a missing ticker
C29_Witness ==
  \E p \in Pairs :
    /\ Len(recentPrices[p]) = MomentumLookbackTicks
    /\ recentPrices[p][1] # recentPrices[p][MomentumLookbackTicks]
    /\ cycle[MT(p)].phase = "skip" /\ ~cycle[MT(p)].ticker.ok

\* C30: step 1 classifies each resting order as exactly one of keep and
\* cancel, each desired order is claimed by at most one resting order, as
\* many orders are kept as desired orders are claimed, and step 3 submits a
\* desired order exactly when it was not claimed.
C30_ClassificationPartitions ==
  Classified =>
    LET ids == IdsOf(call.args.resting)
        r == call.result
        D == call.args.newOrders
    IN /\ Range(r.keep) \cup Range(r.cancel) = Range(ids)
       /\ Range(r.keep) \cap Range(r.cancel) = {}
       /\ Len(r.keep) + Len(r.cancel) = Len(ids)
       /\ r.matched \subseteq DOMAIN D
       /\ Len(r.keep) = Cardinality(r.matched)
       /\ r.toPlace = SelectSeq([k \in DOMAIN D |-> IF k \in r.matched THEN NoOrder ELSE D[k]],
                                LAMBDA o : o # NoOrder)

\* two resting orders match the one desired order: the first has claimed it
\* and is kept, the second is cancelled although its draw would keep it
C30_Witness ==
  /\ Classified /\ Len(call.args.resting) = 2 /\ Len(call.args.newOrders) = 1
  /\ \A i \in 1..2 :
       /\ findMatchingOrder(call.args.resting[i], call.args.newOrders) = 1
       /\ call.args.rnd[i] > call.args.ratio
  /\ call.result.keep = <<1>> /\ call.result.cancel = <<2>>
  /\ call.result.toPlace = <<>>

\* s ends with t
IsSuffix(t, s) == Len(t) <= Len(s) /\ t = SubSeq(s, Len(s) - Len(t) + 1, Len(s))

\* C31: a reconcile cycle makes at most one cancelOrders call, carrying
\* exactly the ids of the orders classified cancel in that cycle; the call
\* has resolved or failed before the first submitOrder call of the cycle,
\* and the orders to place are submitted one at a time in the order of the
\* desired set.
C31_OneCancelThenPlacementsInOrder ==
  [][\A p \in Pairs :
       LET log == cycle'[MM(p)] IN
       /\ \* the call is made by step 2 right after the classification, if
          \* and only if an order is classified cancel, with their ids
          \A i \in DOMAIN runs'[MM(p)] :
            runs'[MM(p)][i].pc = "cancel" =>
              /\ log.cancel # {} /\ runs'[MM(p)][i].toCancel = log.cancel
              /\ log.cancelled = "none"
              /\ \/ Classifies(p)
                 \/ i \in DOMAIN runs[MM(p)] /\ runs[MM(p)][i] = runs'[MM(p)][i]
       /\ Classifies(p) /\ log.cancel # {} =>
            \E i \in DOMAIN runs'[MM(p)] : runs'[MM(p)][i].pc = "cancel"
       /\ \* a submitOrder call is pending only after the cancel call settled,
          \* for the next order of the cycle's orders to place
          \A i \in DOMAIN runs'[MM(p)] :
            runs'[MM(p)][i].pc = "submit" =>
              /\ log.cancel # {} => log.cancelled \in {"ok", "failed"}
              /\ runs'[MM(p)][i].toPlace # <<>>
              /\ IsSuffix(runs'[MM(p)][i].toPlace, log.toPlace)
              /\ Len(log.placed) + Len(log.refused) + Len(runs'[MM(p)][i].toPlace)
                   = Len(log.toPlace)
       /\ Len(runs'[MM(p)]) <= 1]_vars

\* a cycle cancelled an order, the call has settled, the bid of the new
\* ladder was placed and the submitOrder call for its ask is pending
C31_Witness ==
  \E p \in Pairs :
    /\ cycle[MM(p)].cancel # {} /\ cycle[MM(p)].cancelled = "ok"
    /\ Len(cycle[MM(p)].toPlace) = 2 /\ Len(cycle[MM(p)].placed) = 1
    /\ \E i \in DOMAIN runs[MM(p)] :
         /\ runs[MM(p)][i].pc = "submit"
         /\ runs[MM(p)][i].toPlace = <<cycle[MM(p)].toPlace[2]>>

\* a cycle of the maker of p that reconciled the map has ended
CycleEnded(p) == cycle[MM(p)].phase = "done" /\ runs[MM(p)] = <<>>

\* C32: at the end of every cycle of the maker the resting-order map holds
\* at most 2 x depthLevels orders, whatever cancel and submit calls failed.
C32_MapWithinLadder ==
  \A p \in Pairs : CycleEnded(p) => Len(activeMakerOrders[p]) <= 2 * DepthLevels

\* C32, amended: at the end of every cycle that reconciled the map and whose
\* batch cancel, if any, succeeded, the map holds at most 2 x depthLevels
\* orders, whatever submit calls failed and whatever cancel calls failed in
\* earlier cycles.
C32_MapWithinLadderAfterCancel ==
  \A p \in Pairs :
    CycleEnded(p) /\ cycle[MM(p)].cancelled # "failed"
      => Len(activeMakerOrders[p]) <= 2 * DepthLevels

\* a cycle found more than 2 x depthLevels resting orders, left behind by a
\* failed batch cancel, cancelled them all, and has ended
C32_Witness ==
  \E p \in Pairs :
    /\ CycleEnded(p) /\ cycle[MM(p)].cancelled = "ok"
    /\ Cardinality(cycle[MM(p)].cancel) > 2 * DepthLevels

\* C33: once stop() of a pair has returned, neither bot of the pair is
\* running or becomes running without a later start(): a start() of the pair
\* that was in progress when stop() was called starts no bot afterwards, and
\* the taker is never running while the maker is stopped.
C33_StoppedPairStaysStopped ==
  \A p \in Pairs :
    /\ lastCall[MM(p)] \in StopKinds => ~isRunning[MM(p)] /\ ~isRunning[MT(p)]
    /\ isRunning[MT(p)] => isRunning[MM(p)]

(***************************************************************************)
(* The cycles under fair scheduling: a bot of the first pair is started    *)
(* and left running, a pending timer fires, and every awaited fetchTicker, *)
(* cancelOrders and submitOrder call settles, with success or failure.     *)
(***************************************************************************)
MaxLiveOrderId == 2
\* the order ids the venue hands out to the maker
LiveOrderIds == 1..MaxLiveOrderId
\* the inputs the environment delivers to the bot
LiveTickers == {NoTicker, Ticker(100, 101, 100), Ticker(101, 101, 101)}

NextLive ==
  \/ \E b \in HarnessBots : HarnessStart(b)
  \/ \E b \in Bots : TimerFire(b)
  \/ \E p \in Pairs : MMFetchReturn(p, LiveTickers, CycleSizeDraws)
  \/ \E p \in Pairs : MMCancelReturn(p)
  \/ \E p \in Pairs : MMSubmitReturn(p, LiveOrderIds)
  \/ \E p \in Pairs : MTFetchReturn(p, LiveTickers)
  \/ \E p \in Pairs : MTSubmitReturn(p)

\* setTimeout callbacks run once their delay is over; the calls a run()
\* awaits settle
FairLive ==
  /\ \A b \in HarnessBots : WF_vars(TimerFire(b))
  /\ \A p \in {PairOrder[1]} :
       /\ WF_vars(MMFetchReturn(p, LiveTickers, CycleSizeDraws))
       /\ WF_vars(MMCancelReturn(p))
       /\ WF_vars(MMSubmitReturn(p, LiveOrderIds))
       /\ WF_vars(MTFetchReturn(p, LiveTickers))
       /\ WF_vars(MTSubmitReturn(p))

SpecLive == InitCycle /\ [][NextLive]_vars /\ FairLive

\* the timer callback of a running bot enters run(): a cycle begins
CycleBegins(b) == isRunning[b] /\ TimerFire(b)

\* C34: a bot that was started and is never stopped begins a cycle again and
\* again, provided every call it awaits settles, whatever number of cycles
\* is skipped or has calls that fail
C34_CyclesRecur ==
  \A b \in HarnessBots : <>isRunning[b] => []<><<CycleBegins(b)>>_vars

\* a cycle has begun after a skipped cycle, or after one whose fetch, cancel
\* or submit call failed
C34_Witness ==
  \E b \in HarnessBots :
    /\ runs[b] # <<>> /\ runs[b][1].pc = "fetch"
    /\ \/ cycle[b].phase \in {"skip", "error"}
       \/ cycle[b].cancelled = "failed"
       \/ cycle[b].refused # <<>>

====
